---- MODULE Spec2Model ----
(***************************************************************************)
(* Model of the process-analytics scripts of ai-code-templates-for-        *)
(* engineers: the rule-based risk scorer, model application, the           *)
(* batch/QC/COA merge and the CSV loaders.                                 *)
(*                                                                         *)
(* A DataFrame is a record [columns, rows]: columns is the sequence of     *)
(* column labels, rows the sequence of rows, each row a function from the  *)
(* column labels to cell values.  Floats are fixed-point integers: process *)
(* features in hundredths (Centi), probabilities and scores in units of    *)
(* 1/ScoreScale.  A nullable float cell is <<v>> or NaN == <<>>.           *)
(***************************************************************************)
EXTENDS Integers, Sequences, FiniteSets, TLC

VARIABLES
    pc,              \* position of the script under analysis
    variant,         \* which of the copy-pasted functions is being called
    df,              \* the DataFrame the function works on / returns
    raised,          \* exception that propagated to the caller ("none" if none)
    logged,          \* exception caught and printed by the function ("none" if none)
    method_label,    \* apply: method_label argument
    flag_threshold,  \* apply: flag_threshold argument (k / ProbSteps)
    cluster_map,     \* apply: cluster_map argument, None or <<dict>>
    batch_df,        \* merge: batch log table
    qc_df,           \* merge: QC results table
    coa_df,          \* merge: certificate-of-analysis table
    joined,          \* merge: the local table after the first pd.merge
    file,            \* load: what is on disk at file_path
    returned,        \* load: type of the object the loader returned
    data,            \* spc: the measurement Series (integers)
    method,          \* spc: method argument of detect_outliers
    threshold,       \* spc: threshold argument, in halves (3 stands for 1.5)
    outliers,        \* spc: the boolean Series the detector returned
    stats,           \* spc: dict returned by compute_spc_metrics, None before
    outputs,         \* run: files a script run has written
    log_files,       \* log: what is on disk at each log path
    features_to_log, \* log: the column list passed to the appender
    calls,           \* log: the DataFrames appended so far, in call order
    runs             \* log: locals of the runs that append concurrently

vars == <<pc, variant, df, raised, logged, method_label, flag_threshold, cluster_map,
          batch_df, qc_df, coa_df, joined, file, returned,
          data, method, threshold, outliers, stats, outputs,
          log_files, features_to_log, calls, runs>>

applyVars == <<method_label, flag_threshold, cluster_map>>

mergeVars == <<batch_df, qc_df, coa_df, joined>>

loadVars == <<file, returned>>

spcVars == <<data, method, threshold, outliers, stats, outputs>>

logVars == <<log_files, features_to_log, calls, runs>>

(***************************************************************************)
(* Bounds of the model.                                                    *)
(***************************************************************************)
MaxRows == 2
MaxStep == 3
ProbSteps == 2

(***************************************************************************)
(* DataFrame helpers (pandas behaviour the scripts rely on).               *)
(***************************************************************************)
Range(s) == {s[i] : i \in DOMAIN s}

DataFrame(cols, rs) == [columns |-> cols, rows |-> rs]

\* pd.DataFrame(): no columns, no rows
EmptyDataFrame == DataFrame(<<>>, <<>>)

\* mutant of the emptiness test: no table counts as empty
IsEmptyNever(d) == FALSE

\* df.empty: some axis has length 0
IsEmpty(d) == Len(d.columns) = 0 \/ Len(d.rows) = 0

HasColumn(d, c) == c \in Range(d.columns)

\* df[c] = vals : overwrite the column in place, or add it as the last column
SetColumn(d, c, vals) ==
    DataFrame(IF HasColumn(d, c) THEN d.columns ELSE Append(d.columns, c),
              [i \in DOMAIN d.rows |->
                  [k \in DOMAIN d.rows[i] \cup {c} |->
                      IF k = c THEN vals[i] ELSE d.rows[i][k]]])

\* Python None / float NaN, and a present value
None == <<>>

NaN == <<>>

Some(v) == <<v>>

\* The statistical-process-control variables before any SPC function is called
IdleSpc ==
    /\ data = <<>>
    /\ method = "none"
    /\ threshold = 0
    /\ outliers = <<>>
    /\ stats = None
    /\ outputs = {}

\* The log variables before any appender is called
IdleLog ==
    /\ log_files = <<>>
    /\ features_to_log = <<>>
    /\ calls = <<>>
    /\ runs = <<>>

\* missing value in an object (string) column
NA == "NaN"

BatchIds == <<"B1", "B2", "B3", "B4">>

SupplierLots == {"L1", "L2"}

\* a path with no file behind it
NoFile == [kind |-> "missing", ext |-> ".csv", table |-> EmptyDataFrame]

\* all sequences over S of length lo..hi
SeqsOf(S, lo, hi) == UNION {[1..n -> S] : n \in lo..hi}

(***************************************************************************)
(* Rule-based scorer: batch_summary_runner.apply_risk_rules                *)
(***************************************************************************)
Centi == 100
ScoreScale == 200
CompAThreshold == 70
PhThreshold == 690
Half == 50
CompASpan == 10
PhSpan == 20

\* Series.clip(lower, upper)
Clip(x, lower, upper) == IF x < lower THEN lower ELSE IF x > upper THEN upper ELSE x

\* mutants of the flag rule: non-strict comparisons; "or" in place of "and"
RuleFlagNonStrict(a, ph) == (a >= CompAThreshold) /\ (ph <= PhThreshold)

RuleFlagEither(a, ph) == (a > CompAThreshold) \/ (ph < PhThreshold)

\* mutant of the flag rule: the pH condition dropped
RuleFlagComponentOnly(a, ph) == a > CompAThreshold

\* (df['component_A'] > 0.70) & (df['avg_pH'] < 6.9)
RuleFlag(a, ph) == (a > CompAThreshold) /\ (ph < PhThreshold)

\* mutant of the score: the two normalising spans exchanged
RawScoreSpansSwapped(a, ph) ==
      ((ScoreScale * Half * (a - CompAThreshold)) \div (Centi * PhSpan))
    + ((ScoreScale * Half * (PhThreshold - ph)) \div (Centi * CompASpan))

\* 0.5 * (component_A - 0.70) / 0.1 + 0.5 * (6.9 - avg_pH) / 0.2, in 1/ScoreScale
RawScore(a, ph) ==
      ((ScoreScale * Half * (a - CompAThreshold)) \div (Centi * CompASpan))
    + ((ScoreScale * Half * (PhThreshold - ph)) \div (Centi * PhSpan))

\* mutant of the clip: the upper end is not applied
RuleScoreNoUpper(a, ph) == IF RawScore(a, ph) < 0 THEN 0 ELSE RawScore(a, ph)

\* score.clip(lower=0, upper=1)
RuleScore(a, ph) == Clip(RawScore(a, ph), 0, ScoreScale)

CompAValues ==
    {CompAThreshold + 5 * i : i \in (0 - 1)..MaxStep}
        \cup {CompAThreshold - 1000 * MaxStep, CompAThreshold + 1000 * MaxStep}

PhValues ==
    {PhThreshold + 10 * j : j \in (0 - MaxStep)..1}
        \cup {PhThreshold - 1000 * MaxStep, PhThreshold + 1000 * MaxStep}

RuleRow(cols, a, ph) ==
    [k \in Range(cols) |-> IF k = "component_A" THEN a ELSE ph]

\* the merged tables the scorer can be handed: 1..MaxRows rows of numeric features
RuleInputs ==
    {DataFrame(<<"component_A", "avg_pH">>, rs) :
        rs \in SeqsOf({RuleRow(<<"component_A", "avg_pH">>, a, ph) :
                          a \in CompAValues, ph \in PhValues}, 1, MaxRows)}
    \cup {DataFrame(<<"component_A">>, <<RuleRow(<<"component_A">>, a, 0)>>) :
             a \in CompAValues}
    \cup {DataFrame(<<"avg_pH">>, <<RuleRow(<<"avg_pH">>, 0, ph)>>) :
             ph \in PhValues}
    \cup {DataFrame(cols, [i \in 1..n |->
                     [k \in Range(cols) |->
                         CASE k = "batch_id" -> BatchIds[i]
                           [] k = "component_A" -> CompAThreshold + 5
                           [] OTHER -> ph[i]]]) :
             cols \in {<<"batch_id", "component_A", "avg_pH">>,
                       <<"batch_id", "component_A">>,
                       <<"batch_id", "avg_pH">>},
             n \in 1..MaxRows,
             ph \in [1..MaxRows -> {PhThreshold - 10, PhThreshold + 10}]}

InitRules ==
    /\ pc = "rules_call"
    /\ variant = "apply_risk_rules"
    /\ df \in RuleInputs
    /\ raised = "none"
    /\ logged = "none"
    /\ method_label = "none"
    /\ flag_threshold = 0
    /\ cluster_map = None
    /\ batch_df = EmptyDataFrame
    /\ qc_df = EmptyDataFrame
    /\ coa_df = EmptyDataFrame
    /\ joined = EmptyDataFrame
    /\ file = NoFile
    /\ returned = "nothing"
    /\ IdleSpc
    /\ IdleLog

\* mutant of the scorer: the scored rows come back in reverse order
RulesScoredReversed(d) ==
    LET n == Len(d.rows)
    IN  DataFrame(d.columns \o <<"risk_flag", "risk_score">>,
                  [i \in 1..n |->
                      LET r == d.rows[n + 1 - i]
                      IN  [k \in DOMAIN r \cup {"risk_flag", "risk_score"} |->
                              CASE k = "risk_flag" -> RuleFlag(r["component_A"], r["avg_pH"])
                                [] k = "risk_score" -> RuleScore(r["component_A"], r["avg_pH"])
                                [] OTHER -> r[k]]])

\* df['risk_flag'] = ...; df['risk_score'] = score.clip(0, 1); return df
RulesScored(d) ==
    SetColumn(
        SetColumn(d, "risk_flag",
                  [i \in DOMAIN d.rows |->
                      RuleFlag(d.rows[i]["component_A"], d.rows[i]["avg_pH"])]),
        "risk_score",
        [i \in DOMAIN d.rows |->
            RuleScore(d.rows[i]["component_A"], d.rows[i]["avg_pH"])])

apply_risk_rules ==
    /\ pc = "rules_call"
    /\ IF HasColumn(df, "component_A") /\ HasColumn(df, "avg_pH")
         THEN /\ df' = RulesScored(df)
              /\ raised' = "none"
              /\ pc' = "rules_done"
         ELSE \* df['component_A'] / df['avg_pH'] raises KeyError, uncaught
              /\ df' = df
              /\ raised' = "KeyError"
              /\ pc' = "rules_raised"
    /\ UNCHANGED <<variant, logged, applyVars, mergeVars, loadVars, spcVars, logVars>>

NextRules == apply_risk_rules

SpecRules == InitRules /\ [][NextRules]_vars

(***************************************************************************)
(* Model application: templates/models/apply_model_to_batch.py and         *)
(* predict_new_batch_risks.apply_models.  The fitted scaler and model are  *)
(* opaque: model.predict yields some cluster id per row, predict_proba     *)
(* some probability per row.                                               *)
(***************************************************************************)
NClusters == 2

ClusterIds == 0..(NClusters - 1)

\* probabilities k / ProbSteps
ProbValues == 0..ProbSteps

Features == <<"component_A", "avg_pH">>

MethodLabels == {"gmm", "logreg", "rf"}

\* cluster_map arguments: None, or a dict over some of the cluster ids
ClusterMaps ==
    {None} \cup {Some(m) : m \in UNION {[ks -> ProbValues] : ks \in SUBSET ClusterIds}}

\* mutant of the lookup: the entry of the smallest key, whatever the key asked
MapLookupAnyKey(m, k) ==
    IF DOMAIN m = {} THEN NaN
    ELSE Some(m[CHOOSE x \in DOMAIN m : \A y \in DOMAIN m : x <= y])

\* Series.map(dict): a key the dict lacks maps to NaN
MapLookup(m, k) == IF k \in DOMAIN m THEN Some(m[k]) ELSE NaN

\* mutant of the threshold comparison: non-strict
GtThresholdNonStrict(p, t) == p # NaN /\ p[1] >= t

\* Series > flag_threshold : NaN compares False
GtThreshold(p, t) == p # NaN /\ p[1] > t

\* df[f'{method_label}_risk_flag'] = df[f'{method_label}_p_failure'] > flag_threshold
\* (KeyError when the p_failure column of that label does not exist)
FlagStep(d, label, t) ==
    IF HasColumn(d, label \o "_p_failure")
      THEN [df |-> SetColumn(d, label \o "_risk_flag",
                       [i \in DOMAIN d.rows |->
                           GtThreshold(d.rows[i][label \o "_p_failure"], t)]),
            logged |-> "none"]
      ELSE [df |-> d, logged |-> "KeyError"]

\* the gmm branch shared by both variants
GmmBranch(d, t, cmap, clusters) ==
    LET d1 == SetColumn(d, "gmm_cluster", clusters)
    IN  IF cmap # None
          THEN FlagStep(SetColumn(d1, "gmm_p_failure",
                            [i \in DOMAIN d1.rows |-> MapLookup(cmap[1], clusters[i])]),
                        "gmm", t)
          ELSE [df |-> d1, logged |-> "ValueError"]

\* templates/models/apply_model_to_batch.py
apply_model_to_batch(d, features, label, t, cmap, clusters, probs) ==
    IF \E f \in Range(features) : ~HasColumn(d, f)
      THEN [df |-> d, logged |-> "KeyError"]
      ELSE IF label = "gmm"
             THEN GmmBranch(d, t, cmap, clusters)
             ELSE FlagStep(SetColumn(d, label \o "_p_failure",
                               [i \in DOMAIN d.rows |-> Some(probs[i])]),
                           label, t)

\* mutant of the case-study variant: the supervised branch names its column
\* after the label, as the template does
ApplyModelsLabelColumn(d, features, label, t, cmap, clusters, probs) ==
    IF \E f \in Range(features) : ~HasColumn(d, f)
      THEN [df |-> d, logged |-> "KeyError"]
      ELSE IF label = "gmm"
             THEN GmmBranch(d, t, cmap, clusters)
             ELSE FlagStep(SetColumn(d, label \o "_p_failure",
                               [i \in DOMAIN d.rows |-> Some(probs[i])]),
                           label, t)

\* case_studies/batch_summary_tool/predict_new_batch_risks.py
apply_models(d, features, label, t, cmap, clusters, probs) ==
    IF \E f \in Range(features) : ~HasColumn(d, f)
      THEN [df |-> d, logged |-> "KeyError"]
      ELSE IF label = "gmm"
             THEN GmmBranch(d, t, cmap, clusters)
             ELSE FlagStep(SetColumn(d, "logreg_p_failure",
                               [i \in DOMAIN d.rows |-> Some(probs[i])]),
                           label, t)

\* new batch tables: 1..MaxRows rows, with or without the avg_pH feature column
ApplyInputs ==
    {DataFrame(<<"batch_id", "component_A", "avg_pH">>,
               [i \in 1..n |-> [batch_id |-> BatchIds[i], component_A |-> 75,
                                avg_pH |-> 680]]) : n \in 1..MaxRows}
    \cup {DataFrame(<<"batch_id", "component_A">>,
               [i \in 1..n |-> [batch_id |-> BatchIds[i], component_A |-> 75]]) :
               n \in 1..MaxRows}

InitApply ==
    /\ pc = "apply_call"
    /\ variant \in {"apply_model_to_batch", "apply_models"}
    /\ df \in ApplyInputs
    /\ raised = "none"
    /\ logged = "none"
    /\ method_label \in MethodLabels
    /\ flag_threshold \in ProbValues
    /\ cluster_map \in ClusterMaps
    /\ batch_df = EmptyDataFrame
    /\ qc_df = EmptyDataFrame
    /\ coa_df = EmptyDataFrame
    /\ joined = EmptyDataFrame
    /\ file = NoFile
    /\ returned = "nothing"
    /\ IdleSpc
    /\ IdleLog

CallApplyModelToBatch ==
    /\ pc = "apply_call"
    /\ variant = "apply_model_to_batch"
    /\ \E clusters \in [DOMAIN df.rows -> ClusterIds],
          probs \in [DOMAIN df.rows -> ProbValues] :
          LET res == apply_model_to_batch(df, Features, method_label, flag_threshold,
                                          cluster_map, clusters, probs)
          IN  /\ df' = res.df
              /\ logged' = res.logged
    /\ pc' = "apply_done"
    /\ UNCHANGED <<variant, raised, applyVars, mergeVars, loadVars, spcVars, logVars>>

CallApplyModels ==
    /\ pc = "apply_call"
    /\ variant = "apply_models"
    /\ \E clusters \in [DOMAIN df.rows -> ClusterIds],
          probs \in [DOMAIN df.rows -> ProbValues] :
          LET res == apply_models(df, Features, method_label, flag_threshold,
                                  cluster_map, clusters, probs)
          IN  /\ df' = res.df
              /\ logged' = res.logged
    /\ pc' = "apply_done"
    /\ UNCHANGED <<variant, raised, applyVars, mergeVars, loadVars, spcVars, logVars>>

NextApply == CallApplyModelToBatch \/ CallApplyModels

SpecApply == InitApply /\ [][NextApply]_vars

(***************************************************************************)
(* Merger: pd.merge and the four merge functions.                          *)
(***************************************************************************)
\* mutant of the key comparison: the key is ignored (a cross join)
KeyMatchAny(l, r, key) == TRUE

\* on=key : a right row matches a left row when their key cells are equal
KeyMatch(l, r, key) == r[key] = l[key]

\* pd.merge(left, right, on=key, how=how) for tables that both hold the key
\* column: rows in left order, one output row per matching right row, a left
\* row without a match kept (right columns NA) only when how = "left";
\* non-key labels present on both sides get the suffixes _x / _y.
PdMerge(left, right, key, how) ==
    LET overlap == (Range(left.columns) \cap Range(right.columns)) \ {key}
        LName(c) == IF c \in overlap THEN c \o "_x" ELSE c
        RName(c) == IF c \in overlap THEN c \o "_y" ELSE c
        rcols == SelectSeq(right.columns, LAMBDA c : c # key)
        cols == [i \in 1..Len(left.columns) |-> LName(left.columns[i])]
                    \o [i \in 1..Len(rcols) |-> RName(rcols[i])]
        FromLeft(c) == {lc \in Range(left.columns) : LName(lc) = c}
        FromRight(c) == {rc \in Range(rcols) : RName(rc) = c}
        JoinRow(l, r) ==
            [c \in Range(cols) |->
                IF FromLeft(c) # {} THEN l[CHOOSE lc \in FromLeft(c) : TRUE]
                ELSE r[CHOOSE rc \in FromRight(c) : TRUE]]
        NullRow(l) ==
            [c \in Range(cols) |->
                IF FromLeft(c) # {} THEN l[CHOOSE lc \in FromLeft(c) : TRUE] ELSE NA]
        RowsFor(l) ==
            LET m == SelectSeq(right.rows, LAMBDA r : KeyMatch(l, r, key))
            IN  IF Len(m) = 0
                  THEN IF how = "left" THEN <<NullRow(l)>> ELSE <<>>
                  ELSE [j \in 1..Len(m) |-> JoinRow(l, m[j])]
        acc[i \in 0..Len(left.rows)] ==
            IF i = 0 THEN <<>> ELSE acc[i - 1] \o RowsFor(left.rows[i])
    IN  DataFrame(cols, acc[Len(left.rows)])

\* pd.merge raises KeyError when either table lacks the `on` column
CanMerge(left, right, key) == HasColumn(left, key) /\ HasColumn(right, key)

\* mutant of the handler: the exception is not caught
MergeFailurePropagates(j, e) ==
    [df |-> EmptyDataFrame, joined |-> j, logged |-> "none", raised |-> e]

\* except Exception as e: print(...); return pd.DataFrame()
MergeFailure(j, e) ==
    [df |-> EmptyDataFrame, joined |-> j, logged |-> e, raised |-> "none"]

MergeReturn(d, j) == [df |-> d, joined |-> j, logged |-> "none", raised |-> "none"]

\* mutant of the join type of the COA join
CoaJoinInner == "inner"

\* how= of the second merge, on supplier_lot: 'left' in every variant
CoaJoinHow == "left"

\* merge on batch_id with `how`, then on supplier_lot
MergeThree(b, q, c, how) ==
    IF ~CanMerge(b, q, "batch_id") THEN MergeFailure(EmptyDataFrame, "KeyError")
    ELSE LET first == PdMerge(b, q, "batch_id", how)
         IN  IF ~CanMerge(first, c, "supplier_lot") THEN MergeFailure(first, "KeyError")
             ELSE MergeReturn(PdMerge(first, c, "supplier_lot", CoaJoinHow), first)

\* templates/transform/merge_batch_and_qc.py
merge_batch_and_qc(b, q, c) == MergeThree(b, q, c, "inner")

\* risk_logic_generator.merge_data
merge_data(b, q, c) == MergeThree(b, q, c, "inner")

\* mutant of merge_batch_data: the QC join made inner as in the training scripts
merge_batch_data_inner(b, q, c) == MergeThree(b, q, c, "inner")

\* batch_summary_runner.merge_batch_data
merge_batch_data(b, q, c) == MergeThree(b, q, c, "left")

\* predict_new_batch_risks.merge_new_data: batch with COA only
merge_new_data(b, c) ==
    IF ~CanMerge(b, c, "supplier_lot") THEN MergeFailure(b, "KeyError")
    ELSE MergeReturn(PdMerge(b, c, "supplier_lot", CoaJoinHow), b)

\* batch tables: batch_id is the unique key of a batch record
BatchInputs ==
    {DataFrame(<<"batch_id", "supplier_lot">>,
               [i \in 1..n |-> [batch_id |-> BatchIds[i], supplier_lot |-> lots[i]]]) :
        n \in 0..MaxRows, lots \in [1..MaxRows -> SupplierLots]}
    \cup {DataFrame(<<"batch_id">>, [i \in 1..n |-> [batch_id |-> BatchIds[i]]]) :
             n \in 1..MaxRows}
    \cup {DataFrame(<<"supplier_lot">>, [i \in 1..n |-> [supplier_lot |-> "L1"]]) :
             n \in 1..MaxRows}
    \cup {EmptyDataFrame}

QcPayload == <<"q1", "q2", "q3", "q4">>

CoaPayload == <<"c1", "c2", "c3", "c4">>

\* QC tables: any batch_id per row (repeated ids included), or without the key
\* column, or carrying a supplier_lot column of their own
QcInputs ==
    {DataFrame(<<"batch_id", "viability_pct">>,
               [i \in 1..n |-> [batch_id |-> ids[i], viability_pct |-> QcPayload[i]]]) :
        n \in 0..MaxRows, ids \in [1..MaxRows -> {BatchIds[k] : k \in 1..MaxRows}]}
    \cup {DataFrame(<<"viability_pct">>, <<[viability_pct |-> "q1"]>>),
          DataFrame(<<"batch_id", "supplier_lot">>,
                    <<[batch_id |-> "B1", supplier_lot |-> "L1"]>>),
          EmptyDataFrame}

\* COA tables: any supplier_lot per row (repeated lots included), or without the key
CoaInputs ==
    {DataFrame(<<"supplier_lot", "cert_date">>,
               [i \in 1..n |-> [supplier_lot |-> lots[i], cert_date |-> CoaPayload[i]]]) :
        n \in 0..MaxRows, lots \in [1..MaxRows -> SupplierLots]}
    \cup {DataFrame(<<"cert_date">>, <<[cert_date |-> "c1"]>>), EmptyDataFrame}

MergeVariants == {"merge_batch_and_qc", "merge_data", "merge_batch_data", "merge_new_data"}

InitMerge ==
    /\ pc = "merge_call"
    /\ variant \in MergeVariants
    /\ df = EmptyDataFrame
    /\ raised = "none"
    /\ logged = "none"
    /\ method_label = "none"
    /\ flag_threshold = 0
    /\ cluster_map = None
    /\ batch_df \in BatchInputs
    /\ qc_df \in IF variant = "merge_new_data" THEN {EmptyDataFrame} ELSE QcInputs
    /\ coa_df \in CoaInputs
    /\ joined = EmptyDataFrame
    /\ file = NoFile
    /\ returned = "nothing"
    /\ IdleSpc
    /\ IdleLog

MergeCall(name, res) ==
    /\ pc = "merge_call"
    /\ variant = name
    /\ df' = res.df
    /\ joined' = res.joined
    /\ logged' = res.logged
    /\ raised' = res.raised
    /\ pc' = IF res.raised = "none" THEN "merge_done" ELSE "merge_raised"
    /\ UNCHANGED <<variant, applyVars, batch_df, qc_df, coa_df, loadVars, spcVars, logVars>>

CallMergeBatchAndQc ==
    MergeCall("merge_batch_and_qc", merge_batch_and_qc(batch_df, qc_df, coa_df))

CallMergeData == MergeCall("merge_data", merge_data(batch_df, qc_df, coa_df))

CallMergeBatchData ==
    MergeCall("merge_batch_data", merge_batch_data(batch_df, qc_df, coa_df))

CallMergeNewData == MergeCall("merge_new_data", merge_new_data(batch_df, coa_df))

NextMerge ==
    \/ CallMergeBatchAndQc
    \/ CallMergeData
    \/ CallMergeBatchData
    \/ CallMergeNewData

SpecMerge == InitMerge /\ [][NextMerge]_vars

(***************************************************************************)
(* Loaders.  A file is missing, malformed (the parser fails), blank (zero   *)
(* bytes: nothing to parse) or a csv/Excel sheet holding a table.         *)
(***************************************************************************)
\* pd.read_csv / pd.read_excel: the parsed table, or the exception raised
ReadFile(f) ==
    IF f.kind = "missing" THEN [ok |-> FALSE, error |-> "FileNotFoundError", table |-> EmptyDataFrame]
    ELSE IF f.kind = "malformed" THEN [ok |-> FALSE, error |-> "ParserError", table |-> EmptyDataFrame]
    ELSE IF f.kind = "blank" THEN [ok |-> FALSE, error |-> "EmptyDataError", table |-> EmptyDataFrame]
    ELSE [ok |-> TRUE, error |-> "none", table |-> f.table]

LoadReturn(t, kind) == [df |-> t, returned |-> kind, raised |-> "none", logged |-> "none"]

LoadRaise(e) == [df |-> EmptyDataFrame, returned |-> "nothing", raised |-> e, logged |-> "none"]

\* mutant of the fallback: the handler re-raises
LoadFallbackReraises(e) == LoadRaise(e)

\* except Exception as e: print(...); return pd.DataFrame()
LoadFallback(e) ==
    [df |-> EmptyDataFrame, returned |-> "DataFrame", raised |-> "none", logged |-> e]

\* templates/io/load_csv_file.py
load_csv_file(f) ==
    IF ReadFile(f).ok THEN LoadReturn(ReadFile(f).table, "DataFrame")
    ELSE LoadFallback(ReadFile(f).error)

\* batch_summary_runner.load_csv_file
load_csv_file_summary(f) ==
    IF ReadFile(f).ok THEN LoadReturn(ReadFile(f).table, "DataFrame")
    ELSE LoadFallback(ReadFile(f).error)

\* predict_new_batch_risks.load_csv_file
load_csv_file_predict(f) ==
    IF ReadFile(f).ok THEN LoadReturn(ReadFile(f).table, "DataFrame")
    ELSE LoadFallback(ReadFile(f).error)

\* risk_logic_generator.load_csv
load_csv_training(f) ==
    IF ReadFile(f).ok THEN LoadReturn(ReadFile(f).table, "DataFrame")
    ELSE LoadFallback(ReadFile(f).error)

\* templates/data_loading.load_csv: the handler returns None
load_csv(f) ==
    IF ReadFile(f).ok THEN LoadReturn(ReadFile(f).table, "DataFrame")
    ELSE [df |-> EmptyDataFrame, returned |-> "None", raised |-> "none",
          logged |-> ReadFile(f).error]

\* df[value_column] : the Series of one column
Series(t, c) == DataFrame(<<c>>, [i \in DOMAIN t.rows |-> [k \in {c} |-> t.rows[i][c]]])

\* mutant of load_data: a missing column is caught and an empty table returned
load_data_degrades(f, value_column) ==
    IF f.ext \notin {".csv", ".xls", ".xlsx"} THEN LoadRaise("ValueError")
    ELSE IF ~ReadFile(f).ok THEN LoadRaise(ReadFile(f).error)
    ELSE IF ~HasColumn(ReadFile(f).table, value_column) THEN LoadFallback("ValueError")
    ELSE LoadReturn(Series(ReadFile(f).table, value_column), "Series")

\* spc_runner.load_data: no handler; extension check, read, column check
load_data(f, value_column) ==
    IF f.ext \notin {".csv", ".xls", ".xlsx"} THEN LoadRaise("ValueError")
    ELSE IF ~ReadFile(f).ok THEN LoadRaise(ReadFile(f).error)
    ELSE IF ~HasColumn(ReadFile(f).table, value_column) THEN LoadRaise("ValueError")
    ELSE LoadReturn(Series(ReadFile(f).table, value_column), "Series")

DefectColumns == {"x", "y", "type", "severity"}

\* defect_heatmap_runner.load_defect_data: no handler; read, required columns
load_defect_data(f) ==
    IF ~ReadFile(f).ok THEN LoadRaise(ReadFile(f).error)
    ELSE IF ~(DefectColumns \subseteq Range(ReadFile(f).table.columns))
           THEN LoadRaise("ValueError")
    ELSE LoadReturn(ReadFile(f).table, "DataFrame")

\* spatial_defect_map_runner.load_defect_data
load_defect_data_spatial(f) ==
    IF ~ReadFile(f).ok THEN LoadRaise(ReadFile(f).error)
    ELSE IF ~(DefectColumns \subseteq Range(ReadFile(f).table.columns))
           THEN LoadRaise("ValueError")
    ELSE LoadReturn(ReadFile(f).table, "DataFrame")

\* value_column of spc_runner.main
ValueColumn == "Thickness_nm"

FileColumnSets ==
    {<<"x", "y", "type", "severity">>, <<"x", "y", "type">>, <<"Thickness_nm">>,
     <<"batch_id", "supplier_lot">>}

\* parsed contents: a header and 0..MaxRows rows
FileTables ==
    {DataFrame(cols, [i \in 1..n |-> [c \in Range(cols) |-> "v"]]) :
        cols \in FileColumnSets, n \in 0..MaxRows}

Files ==
    {[kind |-> k, ext |-> e, table |-> EmptyDataFrame] :
        k \in {"missing", "malformed", "blank"}, e \in {".csv", ".xlsx", ".txt"}}
    \cup {[kind |-> "table", ext |-> e, table |-> t] :
             e \in {".csv", ".xlsx", ".txt"}, t \in FileTables}

GenericLoaders ==
    {"load_csv_file", "load_csv_file_summary", "load_csv_file_predict", "load_csv_training"}

ValidatingLoaders == {"load_data", "load_defect_data", "load_defect_data_spatial"}

InitLoad ==
    /\ pc = "load_call"
    /\ variant \in GenericLoaders \cup ValidatingLoaders \cup {"load_csv"}
    /\ df = EmptyDataFrame
    /\ raised = "none"
    /\ logged = "none"
    /\ method_label = "none"
    /\ flag_threshold = 0
    /\ cluster_map = None
    /\ batch_df = EmptyDataFrame
    /\ qc_df = EmptyDataFrame
    /\ coa_df = EmptyDataFrame
    /\ joined = EmptyDataFrame
    /\ file \in Files
    /\ returned = "nothing"
    /\ IdleSpc
    /\ IdleLog

LoadCall(name, res) ==
    /\ pc = "load_call"
    /\ variant = name
    /\ df' = res.df
    /\ returned' = res.returned
    /\ raised' = res.raised
    /\ logged' = res.logged
    /\ pc' = IF res.raised = "none" THEN "load_done" ELSE "load_raised"
    /\ UNCHANGED <<variant, applyVars, mergeVars, file, spcVars, logVars>>

CallLoadCsvFile == LoadCall("load_csv_file", load_csv_file(file))

CallLoadCsvFileSummary == LoadCall("load_csv_file_summary", load_csv_file_summary(file))

CallLoadCsvFilePredict == LoadCall("load_csv_file_predict", load_csv_file_predict(file))

CallLoadCsvTraining == LoadCall("load_csv_training", load_csv_training(file))

CallLoadCsv == LoadCall("load_csv", load_csv(file))

CallLoadData == LoadCall("load_data", load_data(file, ValueColumn))

CallLoadDefectData == LoadCall("load_defect_data", load_defect_data(file))

CallLoadDefectDataSpatial ==
    LoadCall("load_defect_data_spatial", load_defect_data_spatial(file))

NextLoad ==
    \/ CallLoadCsvFile
    \/ CallLoadCsvFileSummary
    \/ CallLoadCsvFilePredict
    \/ CallLoadCsvTraining
    \/ CallLoadCsv
    \/ CallLoadData
    \/ CallLoadDefectData
    \/ CallLoadDefectDataSpatial

SpecLoad == InitLoad /\ [][NextLoad]_vars

(***************************************************************************)
(* Statistical process control: spc_runner.py and the outlier templates.   *)
(* Measurements are integers, so that the mean, the sample variance and    *)
(* the quartiles are exact ratios: with n = len(data), S = sum and Q = sum *)
(* of squares, n * (x - mean) = n*x - S and n*(n-1) * var = n*Q - S*S.     *)
(* A threshold is kept in halves (3 stands for 1.5).                       *)
(***************************************************************************)
MaxLen == 4
MaxValue == 3

RECURSIVE SumSeq(_)
SumSeq(s) == IF s = <<>> THEN 0 ELSE Head(s) + SumSeq(Tail(s))

Squares(s) == [i \in DOMAIN s |-> s[i] * s[i]]

\* n * (x - data.mean())
Deviation(d, x) == Len(d) * x - SumSeq(d)

\* n * (n-1) * data.std()**2, with pandas' ddof = 1
VarianceNum(d) == Len(d) * SumSeq(Squares(d)) - SumSeq(d) * SumSeq(d)

\* mutant of the float division: a zero divisor always gives an infinity
FloatDivideZeroIsInf(num, den) == IF den = 0 THEN "inf" ELSE "finite"

\* numpy float division num / den on finite operands: 0/0 is NaN, x/0 is
\* +-inf, and no exception is raised
FloatDivide(num, den) ==
    IF den = 0 THEN (IF num = 0 THEN "nan" ELSE "inf") ELSE "finite"

\* (data - data.mean()) / data.std() at the point x; std() of fewer than two
\* points is NaN and so is the quotient
z_scores(d, x) ==
    IF Len(d) < 2 THEN "nan" ELSE FloatDivide(Deviation(d, x), VarianceNum(d))

\* mutant of the comparison: a z-score equal to the threshold is flagged too
AbsZGreaterOrEqual(d, x, th) ==
    IF z_scores(d, x) = "nan" THEN FALSE
    ELSE IF z_scores(d, x) = "inf" THEN TRUE
    ELSE \/ th <= 0
         \/ 4 * Deviation(d, x) * Deviation(d, x) * (Len(d) - 1)
               >= th * th * Len(d) * VarianceNum(d)

\* abs(z_scores) > threshold at the point x: False on NaN, True on an infinity,
\* otherwise |z|^2 = dev^2 (n-1) / (n varnum) against (th/2)^2
AbsZGreater(d, x, th) ==
    IF z_scores(d, x) = "nan" THEN FALSE
    ELSE IF z_scores(d, x) = "inf" THEN TRUE
    ELSE \/ th < 0
         \/ 4 * Deviation(d, x) * Deviation(d, x) * (Len(d) - 1)
               > th * th * Len(d) * VarianceNum(d)

\* templates/transform/detect_outliers_zscore.py
detect_outliers_zscore(d, th) == [i \in DOMAIN d |-> AbsZGreater(d, d[i], th)]

Sorted(d) == SortSeq(d, LAMBDA a, b : a < b)

\* 4 * data.quantile(k/4): linear interpolation at position (n-1) * k/4 of the
\* sorted values (pandas' default), for a non-empty Series
Quantile4(d, k) ==
    LET h == (Len(d) - 1) * k
        lo == h \div 4
        r == h % 4
    IN  Sorted(d)[lo + 1] * (4 - r) + (IF r = 0 THEN 0 ELSE Sorted(d)[lo + 2] * r)

\* mutant of the lower fence: the comparison includes the fence itself
BelowLowerBoundInclusive(d, x, th) ==
    8 * x <= 2 * Quantile4(d, 1) - th * (Quantile4(d, 3) - Quantile4(d, 1))

\* data < Q1 - threshold * IQR, everything scaled by 8
BelowLowerBound(d, x, th) ==
    8 * x < 2 * Quantile4(d, 1) - th * (Quantile4(d, 3) - Quantile4(d, 1))

\* data > Q3 + threshold * IQR
AboveUpperBound(d, x, th) ==
    8 * x > 2 * Quantile4(d, 3) + th * (Quantile4(d, 3) - Quantile4(d, 1))

\* templates/transform/detect_outliers_iqr.py
detect_outliers_iqr(d, th) ==
    [i \in DOMAIN d |-> BelowLowerBound(d, d[i], th) \/ AboveUpperBound(d, d[i], th)]

DetectReturn(flags) == [raised |-> "none", outliers |-> flags]

\* mutant of the else branch: an unknown method falls back to the z-score
InvalidMethodFallsBack(d, th) == DetectReturn(detect_outliers_zscore(d, th))

\* raise ValueError("Invalid method. Choose 'zscore' or 'iqr'.")
InvalidMethod(d, th) == [raised |-> "ValueError", outliers |-> <<>>]

\* spc_runner.detect_outliers
detect_outliers(d, m, th) ==
    IF m = "zscore" THEN DetectReturn(detect_outliers_zscore(d, th))
    ELSE IF m = "iqr" THEN DetectReturn(detect_outliers_iqr(d, th))
    ELSE InvalidMethod(d, th)

\* spc_runner.compute_spc_metrics: mean is S/n, std is sqrt(varnum / (n(n-1))),
\* the limits are mean + k * std; NaN where pandas returns NaN
compute_spc_metrics(d) ==
    LET mean == IF Len(d) = 0 THEN NaN ELSE <<SumSeq(d), Len(d)>>
        std == IF Len(d) < 2 THEN NaN ELSE <<VarianceNum(d), Len(d) * (Len(d) - 1)>>
    IN  [mean |-> mean,
         std |-> std,
         min |-> IF Len(d) = 0 THEN NaN ELSE Some(Sorted(d)[1]),
         max |-> IF Len(d) = 0 THEN NaN ELSE Some(Sorted(d)[Len(d)]),
         UCL |-> IF std = NaN THEN NaN ELSE [mean |-> mean, k |-> 3, std |-> std],
         LCL |-> IF std = NaN THEN NaN ELSE [mean |-> mean, k |-> 0 - 3, std |-> std]]

SeriesInputs == UNION {[1..n -> 0..MaxValue] : n \in 0..MaxLen}

\* control-chart data long enough for a point to reach three standard
\* deviations: a steady run of twelve points at two levels and one point,
\* first or last, anywhere from far below to far above them. With three
\* points at the low level the UCL is exactly 8, with nine the LCL is
\* exactly 1.
ChartInputs ==
    UNION {{<<x>> \o [i \in 1..12 |-> IF i <= lows THEN 4 ELSE 5],
            [i \in 1..12 |-> IF i <= lows THEN 4 ELSE 5] \o <<x>>} :
              lows \in {3, 9}, x \in 0..9}

\* thresholds -1, 0, 1, 1.5 and 3, in halves
Thresholds == {0 - 2, 0, 2, 3, 6}

Methods == {"zscore", "iqr", "mad", "ZSCORE"}

SpcFunctions ==
    {"detect_outliers", "detect_outliers_zscore", "detect_outliers_iqr",
     "compute_spc_metrics"}

InitSpc ==
    /\ pc = "spc_call"
    /\ variant \in SpcFunctions
    /\ df = EmptyDataFrame
    /\ raised = "none"
    /\ logged = "none"
    /\ method_label = "none"
    /\ flag_threshold = 0
    /\ cluster_map = None
    /\ batch_df = EmptyDataFrame
    /\ qc_df = EmptyDataFrame
    /\ coa_df = EmptyDataFrame
    /\ joined = EmptyDataFrame
    /\ file = NoFile
    /\ returned = "nothing"
    /\ data \in SeriesInputs \cup ChartInputs
    /\ method \in IF variant = "detect_outliers" THEN Methods ELSE {"none"}
    /\ threshold \in IF variant = "compute_spc_metrics" THEN {0} ELSE Thresholds
    /\ outliers = <<>>
    /\ stats = None
    /\ outputs = {}
    /\ IdleLog

\* one call of a detector: it returns the flags or raises
DetectCall(name, res) ==
    /\ pc = "spc_call"
    /\ variant = name
    /\ outliers' = res.outliers
    /\ raised' = res.raised
    /\ pc' = IF res.raised = "none" THEN "spc_done" ELSE "spc_raised"
    /\ UNCHANGED <<variant, df, logged, applyVars, mergeVars, loadVars,
                   data, method, threshold, stats, outputs, logVars>>

CallDetectOutliers == DetectCall("detect_outliers", detect_outliers(data, method, threshold))

CallDetectOutliersZscore ==
    DetectCall("detect_outliers_zscore", DetectReturn(detect_outliers_zscore(data, threshold)))

CallDetectOutliersIqr ==
    DetectCall("detect_outliers_iqr", DetectReturn(detect_outliers_iqr(data, threshold)))

CallComputeSpcMetrics ==
    /\ pc = "spc_call"
    /\ variant = "compute_spc_metrics"
    /\ stats' = compute_spc_metrics(data)
    /\ pc' = "spc_done"
    /\ UNCHANGED <<variant, df, raised, logged, applyVars, mergeVars, loadVars,
                   data, method, threshold, outliers, outputs, logVars>>

NextSpc ==
    \/ CallDetectOutliers
    \/ CallDetectOutliersZscore
    \/ CallDetectOutliersIqr
    \/ CallComputeSpcMetrics

SpecSpc == InitSpc /\ [][NextSpc]_vars

(***************************************************************************)
(* The script runs: spc_runner.main, the __main__ block of                 *)
(* defect_heatmap_runner.py and spatial_defect_map_runner.main.  Each is a *)
(* straight line of calls with no handler: an exception raised by one call *)
(* ends the run before the next call.                                      *)
(***************************************************************************)
Scripts == {"spc_runner", "defect_heatmap_runner", "spatial_defect_map_runner"}

\* parsed measurement files: numeric values, with or without the value column
MeasurementTables ==
    UNION {{DataFrame(cols, [i \in 1..n |-> [c \in Range(cols) |-> vals[i]]]) :
                cols \in {<<"Thickness_nm">>, <<"Wafer", "Thickness_nm">>, <<"Wafer">>},
                vals \in [1..n -> 0..MaxValue]} :
           n \in 0..MaxRows}

\* what the input path of a script can hold; the paths in the scripts end in .csv
ScriptFiles(tables) ==
    {[kind |-> k, ext |-> ".csv", table |-> EmptyDataFrame] :
        k \in {"missing", "malformed", "blank"}}
    \cup {[kind |-> "table", ext |-> ".csv", table |-> t] : t \in tables}

InitRun ==
    /\ pc = "run_load"
    /\ variant \in Scripts
    /\ df = EmptyDataFrame
    /\ raised = "none"
    /\ logged = "none"
    /\ method_label = "none"
    /\ flag_threshold = 0
    /\ cluster_map = None
    /\ batch_df = EmptyDataFrame
    /\ qc_df = EmptyDataFrame
    /\ coa_df = EmptyDataFrame
    /\ joined = EmptyDataFrame
    /\ file \in IF variant = "spc_runner" THEN ScriptFiles(MeasurementTables)
                                          ELSE ScriptFiles(FileTables)
    /\ returned = "nothing"
    /\ IdleSpc
    /\ IdleLog

\* the values of a one-column Series
SeriesValues(s) == [i \in DOMAIN s.rows |-> s.rows[i][s.columns[1]]]

\* spc_runner.main: data = load_data(file_path, value_column)
MainLoadData ==
    /\ pc = "run_load"
    /\ variant = "spc_runner"
    /\ LET res == load_data(file, ValueColumn)
       IN  /\ raised' = res.raised
           /\ returned' = res.returned
           /\ logged' = res.logged
           /\ IF res.raised = "none"
                THEN /\ data' = SeriesValues(res.df)
                     /\ pc' = "run_metrics"
                ELSE /\ data' = data
                     /\ pc' = "run_aborted"
    /\ UNCHANGED <<variant, df, applyVars, mergeVars, file,
                   method, threshold, outliers, stats, outputs, logVars>>

\* stats = compute_spc_metrics(data)
MainComputeSpcMetrics ==
    /\ pc = "run_metrics"
    /\ stats' = compute_spc_metrics(data)
    /\ pc' = "run_detect"
    /\ UNCHANGED <<variant, df, raised, logged, applyVars, mergeVars, loadVars,
                   data, method, threshold, outliers, outputs, logVars>>

\* outliers = detect_outliers(data, method='zscore', threshold=3.0)
MainDetectOutliers ==
    /\ pc = "run_detect"
    /\ method' = "zscore"
    /\ threshold' = 6
    /\ outliers' = detect_outliers(data, "zscore", 6).outliers
    /\ pc' = "run_plot"
    /\ UNCHANGED <<variant, df, raised, logged, applyVars, mergeVars, loadVars,
                   data, stats, outputs, logVars>>

\* plot_control_chart(data, stats, outliers, output_path=chart_path)
MainPlotControlChart ==
    /\ pc = "run_plot"
    /\ variant = "spc_runner"
    /\ outputs' = outputs \cup {"output_chart.png"}
    /\ pc' = "run_save"
    /\ UNCHANGED <<variant, df, raised, logged, applyVars, mergeVars, loadVars,
                   data, method, threshold, outliers, stats, logVars>>

\* save_flagged_data(data, outliers, output_path=csv_path)
MainSaveFlaggedData ==
    /\ pc = "run_save"
    /\ outputs' = outputs \cup {"flagged_data.csv"}
    /\ pc' = "run_done"
    /\ UNCHANGED <<variant, df, raised, logged, applyVars, mergeVars, loadVars,
                   data, method, threshold, outliers, stats, logVars>>

\* df = load_defect_data(...) in either defect script
RunLoadDefectData ==
    /\ pc = "run_load"
    /\ variant \in {"defect_heatmap_runner", "spatial_defect_map_runner"}
    /\ LET res == IF variant = "defect_heatmap_runner" THEN load_defect_data(file)
                  ELSE load_defect_data_spatial(file)
       IN  /\ raised' = res.raised
           /\ returned' = res.returned
           /\ logged' = res.logged
           /\ df' = res.df
           /\ pc' = IF res.raised = "none" THEN "run_plot" ELSE "run_aborted"
    /\ UNCHANGED <<variant, applyVars, mergeVars, file, spcVars, logVars>>

\* plot_defect_map(df, output_png)
RunPlotDefectMap ==
    /\ pc = "run_plot"
    /\ variant \in {"defect_heatmap_runner", "spatial_defect_map_runner"}
    /\ outputs' = outputs \cup {IF variant = "defect_heatmap_runner"
                                  THEN "defect_heatmap.png" ELSE "spatial_defect_map.png"}
    /\ pc' = "run_done"
    /\ UNCHANGED <<variant, df, raised, logged, applyVars, mergeVars, loadVars,
                   data, method, threshold, outliers, stats, logVars>>

NextRun ==
    \/ MainLoadData
    \/ MainComputeSpcMetrics
    \/ MainDetectOutliers
    \/ MainPlotControlChart
    \/ MainSaveFlaggedData
    \/ RunLoadDefectData
    \/ RunPlotDefectMap

SpecRun == InitRun /\ [][NextRun]_vars

(***************************************************************************)
(* The log appender: templates/io/append_to_log.py and its two copies      *)
(* (predict_new_batch_risks.append_to_log and                              *)
(* batch_summary_runner.append_to_master_log, the latter with a fixed      *)
(* column list).  A cell of a DataFrame is <<dtype, text>>; a csv file     *)
(* holds the text only, and read_csv infers the dtype again.               *)
(***************************************************************************)
MaxAppends == 2

NaCell == <<"nan", "">>

\* an integer in a float64 column
AsFloat(cell) == IF cell[1] = "int" THEN <<"float", cell[2] \o ".0">> ELSE cell

\* a numeric column holding a NaN or a float is float64: its integers are floats
Upcast(d) ==
    LET cells(c) == {d.rows[i][c] : i \in DOMAIN d.rows}
        float64(c) == /\ \A cell \in cells(c) : cell[1] \in {"int", "float", "nan"}
                      /\ \E cell \in cells(c) : cell[1] \in {"float", "nan"}
    IN  DataFrame(d.columns,
                  [i \in DOMAIN d.rows |->
                      [c \in Range(d.columns) |->
                          IF float64(c) THEN AsFloat(d.rows[i][c]) ELSE d.rows[i][c]]])

\* read_csv's reading of one field
ParseField(text) ==
    IF text \in {"", "NA", "NaN"} THEN NaCell
    ELSE IF text \in {"True", "False"} THEN <<"bool", text>>
    ELSE IF text \in {"0", "1", "2"} THEN <<"int", text>>
    ELSE IF text \in {"0.0", "0.5", "1.0", "2.0"} THEN <<"float", text>>
    ELSE <<"str", text>>

\* pd.read_csv(log_path) of a file that parses
ReadCsv(f) ==
    Upcast(DataFrame(f.table.columns,
                     [i \in DOMAIN f.table.rows |->
                         [c \in Range(f.table.columns) |-> ParseField(f.table.rows[i][c])]]))

\* combined.to_csv(log_path, index=False): the header and the text of each
\* cell; a frame without columns leaves a file with nothing to parse
ToCsv(d) ==
    IF d.columns = <<>> THEN [kind |-> "blank", ext |-> ".csv", table |-> EmptyDataFrame]
    ELSE [kind |-> "table", ext |-> ".csv",
          table |-> DataFrame(d.columns,
                              [i \in DOMAIN d.rows |->
                                  [c \in Range(d.columns) |-> d.rows[i][c][2]]])]

\* mutant of the projection: the columns keep the order they have in df
ProjectInFrameOrder(d, cols) ==
    DataFrame(SelectSeq(d.columns, LAMBDA c : c \in Range(cols)),
              [i \in DOMAIN d.rows |-> [c \in Range(cols) |-> d.rows[i][c]]])

\* df[features_to_log]: the listed columns, in the listed order
Project(d, cols) ==
    DataFrame(cols, [i \in DOMAIN d.rows |-> [c \in Range(cols) |-> d.rows[i][c]]])

\* the columns of pd.concat([a, b]): those of a, then the new ones of b
ConcatColumns(a, b) == a.columns \o SelectSeq(b.columns, LAMBDA c : c \notin Range(a.columns))

\* the rows of d over the columns cols, NaN where d has no such column
Reindex(d, cols) ==
    [i \in DOMAIN d.rows |->
        [c \in Range(cols) |-> IF HasColumn(d, c) THEN d.rows[i][c] ELSE NaCell]]

\* mutant of the concatenation: rows with a batch_id already present are dropped
ConcatDropDuplicates(a, b) ==
    LET cols == ConcatColumns(a, b)
        seen == {a.rows[i]["batch_id"] : i \in {j \in DOMAIN a.rows : HasColumn(a, "batch_id")}}
        fresh == SelectSeq(Reindex(b, cols), LAMBDA r : r["batch_id"] \notin seen)
    IN  Upcast(DataFrame(cols, Reindex(a, cols) \o fresh))

\* mutant of the concatenation: only the new rows are kept
ConcatKeepsNew(a, b) == b

\* mutant of the concatenation: the new rows come first
ConcatNewFirst(a, b) ==
    Upcast(DataFrame(ConcatColumns(a, b),
                     Reindex(b, ConcatColumns(a, b)) \o Reindex(a, ConcatColumns(a, b))))

\* pd.concat([existing, new_data], ignore_index=True)
Concat(a, b) ==
    Upcast(DataFrame(ConcatColumns(a, b),
                     Reindex(a, ConcatColumns(a, b)) \o Reindex(b, ConcatColumns(a, b))))

\* mutant of the appender: the projection made inside the try, after the path
\* is looked at, so that a missing column is caught and printed
AppendProjectsInsideTry(d, f, cols) ==
    IF ~(Range(cols) \subseteq Range(d.columns))
      THEN [file |-> f, raised |-> "none", logged |-> "KeyError"]
    ELSE IF f.kind = "missing"
      THEN [file |-> ToCsv(Project(d, cols)), raised |-> "none", logged |-> "none"]
    ELSE IF ~ReadFile(f).ok
      THEN [file |-> f, raised |-> "none", logged |-> ReadFile(f).error]
    ELSE [file |-> ToCsv(Concat(ReadCsv(f), Project(d, cols))),
          raised |-> "none", logged |-> "none"]

\* append_to_log(df, log_path, features_to_log) with f at log_path: the file
\* left at log_path, the exception raised and the exception caught
append_to_log(d, f, cols) ==
    IF ~(Range(cols) \subseteq Range(d.columns))
      THEN \* df[features_to_log] is outside the try
           [file |-> f, raised |-> "KeyError", logged |-> "none"]
    ELSE IF f.kind = "missing"
      THEN [file |-> ToCsv(Project(d, cols)), raised |-> "none", logged |-> "none"]
    ELSE IF ~ReadFile(f).ok
      THEN [file |-> f, raised |-> "none", logged |-> ReadFile(f).error]
    ELSE [file |-> ToCsv(Concat(ReadCsv(f), Project(d, cols))),
          raised |-> "none", logged |-> "none"]

\* rows of a scored table as the scripts log them
LogRows ==
    {[batch_id |-> <<"str", "B1">>, risk_score |-> <<"float", "0.5">>,
      risk_flag |-> <<"bool", "True">>],
     [batch_id |-> <<"str", "B2">>, risk_score |-> NaCell,
      risk_flag |-> <<"bool", "False">>]}

LogFrames ==
    {DataFrame(<<"batch_id", "risk_score", "risk_flag">>, rs) : rs \in SeqsOf(LogRows, 0, MaxRows)}
    \cup \* records that were scored but never flagged: no risk_flag column
         {DataFrame(<<"batch_id", "risk_score">>,
                    <<[batch_id |-> <<"str", "B3">>, risk_score |-> <<"float", "0.25">>]>>)}

\* column lists passed as features_to_log; the last names a column no df has
FeatureLists ==
    {<<"batch_id", "risk_flag">>, <<"risk_flag", "risk_score", "batch_id">>,
     <<"batch_id", "viability_pct">>}

\* a log written by some other tool: other columns, an integer column and a
\* field that read_csv takes for a missing value
OtherLog ==
    [kind |-> "table", ext |-> ".csv",
     table |-> DataFrame(<<"batch_id", "gmm_cluster">>,
                         <<[batch_id |-> "B0", gmm_cluster |-> "1"],
                           [batch_id |-> "NA", gmm_cluster |-> "2"]>>)]

\* what can be at log_path before the first call
InitialLogs(cols) ==
    {[kind |-> k, ext |-> ".csv", table |-> EmptyDataFrame] :
        k \in {"missing", "malformed", "blank"}}
    \cup {OtherLog}
    \cup IF "viability_pct" \in Range(cols) THEN {}
         ELSE {ToCsv(Project(DataFrame(<<"batch_id", "risk_score", "risk_flag">>, rs), cols)) :
                  rs \in SeqsOf(LogRows, 0, 1)}

\* three paths that start with the same content: the log appended to call by
\* call, the log that receives all the rows in one call, and an untouched copy
LogPaths == {"log.csv", "log_once.csv", "log_before.csv"}

InitLog ==
    /\ pc = "log_call"
    /\ variant = "append_to_log"
    /\ df = EmptyDataFrame
    /\ raised = "none"
    /\ logged = "none"
    /\ method_label = "none"
    /\ flag_threshold = 0
    /\ cluster_map = None
    /\ batch_df = EmptyDataFrame
    /\ qc_df = EmptyDataFrame
    /\ coa_df = EmptyDataFrame
    /\ joined = EmptyDataFrame
    /\ file = NoFile
    /\ returned = "nothing"
    /\ IdleSpc
    /\ features_to_log \in FeatureLists
    /\ \E f \in InitialLogs(features_to_log) : log_files = [p \in LogPaths |-> f]
    /\ calls = <<>>
    /\ runs = <<>>

\* one call append_to_log(d, 'log.csv', features_to_log)
CallAppendToLog ==
    /\ pc = "log_call"
    /\ Len(calls) < MaxAppends
    /\ \E d \in LogFrames :
          LET res == append_to_log(d, log_files["log.csv"], features_to_log)
          IN  /\ log_files' = [log_files EXCEPT !["log.csv"] = res.file]
              /\ raised' = res.raised
              /\ logged' = res.logged
              /\ calls' = Append(calls, d)
              /\ pc' = IF res.raised = "none" THEN "log_call" ELSE "log_raised"
    /\ UNCHANGED <<variant, df, applyVars, mergeVars, loadVars, spcVars,
                   features_to_log, runs>>

RECURSIVE AllRows(_)
\* the rows of pd.concat(frames)
AllRows(frames) ==
    IF frames = <<>> THEN <<>> ELSE Head(frames).rows \o AllRows(Tail(frames))

\* the rows of all the calls so far, appended to 'log_once.csv' in one call
CallAppendOnce ==
    /\ pc = "log_call"
    /\ Len(calls) >= 2
    /\ LET res == append_to_log(DataFrame(calls[1].columns, AllRows(calls)),
                                log_files["log_once.csv"], features_to_log)
       IN  /\ log_files' = [log_files EXCEPT !["log_once.csv"] = res.file]
           /\ raised' = res.raised
           /\ logged' = res.logged
           /\ pc' = "log_compared"
    /\ UNCHANGED <<variant, df, applyVars, mergeVars, loadVars, spcVars,
                   features_to_log, calls, runs>>

NextLog == CallAppendToLog \/ CallAppendOnce

SpecLog == InitLog /\ [][NextLog]_vars

(***************************************************************************)
(* Two runs that append to the same log at the same time.  Nothing locks   *)
(* the file, so the three accesses of a call (os.path.exists, pd.read_csv, *)
(* to_csv) of one run interleave with those of the other.                  *)
(***************************************************************************)
RunIds == {1, 2}

InitRace ==
    /\ pc = "race"
    /\ variant = "append_to_log"
    /\ df = EmptyDataFrame
    /\ raised = "none"
    /\ logged = "none"
    /\ method_label = "none"
    /\ flag_threshold = 0
    /\ cluster_map = None
    /\ batch_df = EmptyDataFrame
    /\ qc_df = EmptyDataFrame
    /\ coa_df = EmptyDataFrame
    /\ joined = EmptyDataFrame
    /\ file = NoFile
    /\ returned = "nothing"
    /\ IdleSpc
    /\ features_to_log = <<"batch_id", "risk_flag">>
    /\ \E f \in InitialLogs(features_to_log) : log_files = [p \in LogPaths |-> f]
    /\ calls = <<>>
    /\ runs \in [RunIds -> {[pc |-> "exists", df |-> d, seen |-> NoFile,
                             combined |-> EmptyDataFrame] :
                               \* a run whose projection raises never reaches the file
                               d \in {x \in LogFrames :
                                         Range(features_to_log) \subseteq Range(x.columns)}}]

\* new_data = df[features_to_log]; if os.path.exists(log_path): ... else:
\* combined = new_data
RunExists(r) ==
    /\ runs[r].pc = "exists"
    /\ runs' = [runs EXCEPT ![r] =
                   IF log_files["log.csv"].kind # "missing"
                     THEN [@ EXCEPT !.pc = "read"]
                     ELSE [@ EXCEPT !.pc = "write", !.seen = log_files["log.csv"],
                                    !.combined = Project(runs[r].df, features_to_log)]]
    /\ UNCHANGED <<pc, variant, df, raised, logged, applyVars, mergeVars, loadVars,
                   spcVars, log_files, features_to_log, calls>>

\* existing = pd.read_csv(log_path); combined = pd.concat([existing, new_data]);
\* a file that does not parse ends the call in the handler
RunRead(r) ==
    /\ runs[r].pc = "read"
    /\ IF ReadFile(log_files["log.csv"]).ok
         THEN /\ runs' = [runs EXCEPT ![r] =
                    [@ EXCEPT !.pc = "write", !.seen = log_files["log.csv"],
                              !.combined = Concat(ReadCsv(log_files["log.csv"]),
                                                  Project(runs[r].df, features_to_log))]]
              /\ logged' = logged
         ELSE /\ runs' = [runs EXCEPT ![r] =
                    [@ EXCEPT !.pc = "done", !.seen = log_files["log.csv"]]]
              /\ logged' = ReadFile(log_files["log.csv"]).error
    /\ UNCHANGED <<pc, variant, df, raised, applyVars, mergeVars, loadVars,
                   spcVars, log_files, features_to_log, calls>>

\* mutant of the write: the run reads the log again and writes in one step
RunWriteMerges(r) ==
    /\ runs[r].pc = "write"
    /\ log_files' = [log_files EXCEPT !["log.csv"] =
                        append_to_log(runs[r].df, log_files["log.csv"], features_to_log).file]
    /\ calls' = Append(calls, runs[r].df)
    /\ runs' = [runs EXCEPT ![r].pc = "done"]
    /\ UNCHANGED <<pc, variant, df, raised, logged, applyVars, mergeVars, loadVars,
                   spcVars, features_to_log>>

\* combined.to_csv(log_path, index=False): the file is replaced
RunWrite(r) ==
    /\ runs[r].pc = "write"
    /\ log_files' = [log_files EXCEPT !["log.csv"] = ToCsv(runs[r].combined)]
    /\ calls' = Append(calls, runs[r].df)
    /\ runs' = [runs EXCEPT ![r].pc = "done"]
    /\ UNCHANGED <<pc, variant, df, raised, logged, applyVars, mergeVars, loadVars,
                   spcVars, features_to_log>>

NextRace == \E r \in RunIds : RunExists(r) \/ RunRead(r) \/ RunWrite(r)

SpecRace == InitRace /\ [][NextRace]_vars

(***************************************************************************)
(* Mixture training: templates/models/train_gmm.py and                     *)
(* risk_logic_generator.train_gmm.  The fitted mixture is opaque:          *)
(* fit_predict yields some cluster id per row.  The target is in           *)
(* hundredths; a fraction is the pair <<failing rows, rows>>.              *)
(***************************************************************************)
ViabilityThreshold == 90

\* mutant of the failure test: a target equal to the threshold fails too
BelowThresholdInclusive(v, t) == v # NaN /\ v[1] <= t

\* x < threshold : NaN compares False
BelowThreshold(v, t) == v # NaN /\ v[1] < t

\* (x < threshold).mean() over the rows of cluster c
FailureFraction(d, target_col, t, c) ==
    LET members == {i \in DOMAIN d.rows : d.rows[i]["gmm_cluster"] = c}
    IN  <<Cardinality({i \in members : BelowThreshold(d.rows[i][target_col], t)}),
          Cardinality(members)>>

\* train_gmm: the table with gmm_cluster and gmm_p_failure added and the
\* cluster_map, or the exception raised (there is no handler)
train_gmm(d, features, t, target_col, cluster_ids) ==
    IF \E f \in Range(features) : ~HasColumn(d, f)
      THEN [df |-> d, cluster_map |-> None, raised |-> "KeyError"]
    ELSE IF Len(d.rows) < NClusters
      THEN \* fewer samples than mixture components
           [df |-> d, cluster_map |-> None, raised |-> "ValueError"]
    ELSE LET d1 == SetColumn(d, "gmm_cluster", cluster_ids)
         IN  [df |-> SetColumn(d1, "gmm_p_failure",
                        [i \in DOMAIN d1.rows |->
                            FailureFraction(d1, target_col, t, cluster_ids[i])]),
              cluster_map |-> Some([c \in Range(cluster_ids) |->
                                       FailureFraction(d1, target_col, t, c)]),
              raised |-> "none"]

\* training tables: 0..MaxRows+1 rows, viability below, on and above the
\* threshold or missing, with or without the avg_pH feature column
TrainInputs ==
    UNION {{DataFrame(cols, [i \in 1..n |->
                         [c \in Range(cols) |->
                             IF c = "viability_pct" THEN v[i] ELSE 75]]) :
                cols \in {<<"component_A", "avg_pH", "viability_pct">>,
                          <<"component_A", "viability_pct">>},
                v \in [1..n -> {NaN, Some(85), Some(90), Some(95)}]} :
           n \in 0..(MaxRows + 1)}

InitTrain ==
    /\ pc = "train_call"
    /\ variant \in {"train_gmm", "risk_logic_generator.train_gmm"}
    /\ df \in TrainInputs
    /\ raised = "none"
    /\ logged = "none"
    /\ method_label = "none"
    /\ flag_threshold = 0
    /\ cluster_map = None
    /\ batch_df = EmptyDataFrame
    /\ qc_df = EmptyDataFrame
    /\ coa_df = EmptyDataFrame
    /\ joined = EmptyDataFrame
    /\ file = NoFile
    /\ returned = "nothing"
    /\ IdleSpc
    /\ IdleLog

CallTrainGmm ==
    /\ pc = "train_call"
    /\ \E cluster_ids \in [DOMAIN df.rows -> ClusterIds] :
          LET res == train_gmm(df, Features, ViabilityThreshold, "viability_pct", cluster_ids)
          IN  /\ df' = res.df
              /\ cluster_map' = res.cluster_map
              /\ raised' = res.raised
              /\ pc' = IF res.raised = "none" THEN "train_done" ELSE "train_raised"
    /\ UNCHANGED <<variant, logged, method_label, flag_threshold, mergeVars, loadVars,
                   spcVars, logVars>>

NextTrain == CallTrainGmm

SpecTrain == InitTrain /\ [][NextTrain]_vars

(***************************************************************************)
(* The batch pipelines: the main functions of batch_summary_runner.py,     *)
(* predict_new_batch_risks.py and risk_logic_generator.py, call by call.   *)
(* A run starts with the tables its loaders returned (an empty table for a *)
(* file that failed to load); a call that raises with no handler around it *)
(* ends the run.                                                           *)
(***************************************************************************)
Pipelines == {"batch_summary_runner", "predict_new_batch_risks", "risk_logic_generator"}

\* batch logs as loaded: 0..MaxRows batches, with all columns or without one
PipelineBatchTables ==
    {DataFrame(cols, [i \in 1..n |->
                 [c \in Range(cols) |->
                     CASE c = "batch_id" -> BatchIds[i]
                       [] c = "component_A" -> 75
                       [] c = "avg_pH" -> 680
                       [] OTHER -> "L1"]]) :
        cols \in {<<"batch_id", "date", "supplier_lot", "component_A", "avg_pH">>,
                  <<"batch_id", "date", "supplier_lot", "component_A">>,
                  <<"batch_id", "supplier_lot", "component_A", "avg_pH">>,
                  <<"batch_id", "date", "component_A", "avg_pH">>},
        n \in 0..MaxRows}
    \cup {EmptyDataFrame}

\* QC results as loaded: a viability per batch, below or above the threshold
PipelineQcTables ==
    UNION {{DataFrame(<<"batch_id", "viability_pct">>,
                      [i \in 1..n |-> [batch_id |-> BatchIds[i], viability_pct |-> v[i]]]) :
                v \in [1..n -> {Some(85), Some(95)}]} : n \in 0..MaxRows}
    \cup {EmptyDataFrame}

PipelineCoaTables ==
    {DataFrame(<<"supplier_lot", "cert_date">>, <<[supplier_lot |-> l, cert_date |-> "c1"]>>) :
        l \in SupplierLots}
    \cup {EmptyDataFrame}

InitPipeline ==
    /\ pc = "pipe_merge"
    /\ variant \in Pipelines
    /\ df = EmptyDataFrame
    /\ raised = "none"
    /\ logged = "none"
    /\ method_label = "none"
    /\ flag_threshold = 1
    /\ cluster_map = None
    /\ batch_df \in PipelineBatchTables
    /\ qc_df \in IF variant = "predict_new_batch_risks" THEN {EmptyDataFrame}
                 ELSE PipelineQcTables
    /\ coa_df \in PipelineCoaTables
    /\ joined = EmptyDataFrame
    /\ file = NoFile
    /\ returned = "nothing"
    /\ IdleSpc
    /\ IdleLog

\* the frame variables of a pipeline step that touches none of them
pipeFrame == <<variant, flag_threshold, method_label, batch_df, qc_df, coa_df, joined,
               loadVars, data, method, threshold, outliers, stats, logVars>>

\* merged = merge_...(...) and the test of merged.empty that follows it
PipelineMerge ==
    /\ pc = "pipe_merge"
    /\ LET res == CASE variant = "batch_summary_runner" -> merge_batch_data(batch_df, qc_df, coa_df)
                    [] variant = "predict_new_batch_risks" -> merge_new_data(batch_df, coa_df)
                    [] OTHER -> merge_data(batch_df, qc_df, coa_df)
       IN  /\ df' = res.df
           /\ logged' = res.logged
           /\ pc' = IF IsEmpty(res.df) THEN "pipe_done"
                    ELSE CASE variant = "batch_summary_runner" -> "pipe_rules"
                           [] variant = "predict_new_batch_risks" -> "pipe_models"
                           [] OTHER -> "pipe_train_gmm"
    /\ UNCHANGED <<pipeFrame, raised, cluster_map, outputs>>

\* a column list is in the table
HasColumns(d, cols) == \A c \in cols : HasColumn(d, c)

\* batch_summary_runner.main: scored_df = apply_risk_rules(merged_df)
SummaryApplyRiskRules ==
    /\ pc = "pipe_rules"
    /\ IF HasColumns(df, {"component_A", "avg_pH"})
         THEN df' = RulesScored(df) /\ raised' = "none" /\ pc' = "pipe_export"
         ELSE df' = df /\ raised' = "KeyError" /\ pc' = "pipe_aborted"
    /\ UNCHANGED <<pipeFrame, logged, cluster_map, outputs>>

\* export_summary_report(scored_df, output_md): the file is opened for writing
\* before the rows are read; a missing column is caught
SummaryExportReport ==
    /\ pc = "pipe_export"
    /\ outputs' = outputs \cup {"batch_summary_output.md"}
    /\ logged' = IF HasColumns(df, {"batch_id", "date", "component_A", "avg_pH",
                                    "viability_pct", "risk_flag"})
                   THEN logged ELSE "KeyError"
    /\ pc' = "pipe_append"
    /\ UNCHANGED <<pipeFrame, df, raised, cluster_map>>

\* append_to_master_log(scored_df, history_log): df[cols_to_save] is outside
\* the try
SummaryAppendToMasterLog ==
    /\ pc = "pipe_append"
    /\ variant = "batch_summary_runner"
    /\ IF HasColumns(df, {"batch_id", "date", "component_A", "avg_pH", "viability_pct",
                          "risk_flag", "risk_score"})
         THEN /\ outputs' = outputs \cup {"batch_history_log.csv"}
              /\ raised' = "none"
              /\ pc' = "pipe_plot"
         ELSE /\ outputs' = outputs
              /\ raised' = "KeyError"
              /\ pc' = "pipe_aborted"
    /\ UNCHANGED <<pipeFrame, df, logged, cluster_map>>

\* plot_risk_trend(history_log, risk_plot): reads the log just written
SummaryPlotRiskTrend ==
    /\ pc = "pipe_plot"
    /\ variant = "batch_summary_runner"
    /\ outputs' = outputs \cup {"risk_trend_plot.png"}
    /\ pc' = "pipe_done"
    /\ UNCHANGED <<pipeFrame, df, raised, logged, cluster_map>>

\* predict_new_batch_risks.main: the three model files must exist, else the
\* run returns; the cluster map is read from the file the training run wrote
PredictLoadModels ==
    /\ pc = "pipe_models"
    /\ \/ /\ pc' = "pipe_done"
          /\ cluster_map' = cluster_map
       \/ /\ \E m \in [ClusterIds -> ProbValues] : cluster_map' = Some(m)
          /\ pc' = "pipe_apply_gmm"
    /\ UNCHANGED <<pipeFrame, df, raised, logged, outputs>>

\* df = apply_models(df, model, features, label, flag_thresh, cluster_map)
PredictApplyModels(label, next) ==
    /\ \E clusters \in [DOMAIN df.rows -> ClusterIds], probs \in [DOMAIN df.rows -> ProbValues] :
          LET res == apply_models(df, Features, label, flag_threshold,
                                  IF label = "gmm" THEN cluster_map ELSE None,
                                  clusters, probs)
          IN  /\ df' = res.df
              /\ logged' = IF res.logged = "none" THEN logged ELSE res.logged
    /\ pc' = next
    /\ UNCHANGED <<pipeFrame, raised, cluster_map, outputs>>

PredictApplyGmm == pc = "pipe_apply_gmm" /\ PredictApplyModels("gmm", "pipe_apply_logreg")

PredictApplyLogreg == pc = "pipe_apply_logreg" /\ PredictApplyModels("logreg", "pipe_append")

\* log_cols of predict_new_batch_risks.main
PredictLogCols ==
    {"batch_id", "date", "component_A", "avg_pH",
     "gmm_p_failure", "gmm_risk_flag", "logreg_p_failure", "logreg_risk_flag"}

\* append_to_log(df, history_log, log_cols): df[features_to_log] is outside
\* the try
PredictAppendToLog ==
    /\ pc = "pipe_append"
    /\ variant = "predict_new_batch_risks"
    /\ IF HasColumns(df, PredictLogCols)
         THEN /\ outputs' = outputs \cup {"batch_history_log.csv"}
              /\ raised' = "none"
              /\ pc' = "pipe_plot_gmm"
         ELSE /\ outputs' = outputs
              /\ raised' = "KeyError"
              /\ pc' = "pipe_aborted"
    /\ UNCHANGED <<pipeFrame, df, logged, cluster_map>>

\* plot_risk_trend(df, score_col, flag_col, output_path, ...): everything in a try
PredictPlotRiskTrend(score_col, flag_col, output_path) ==
    /\ IF HasColumns(df, {"date", score_col, flag_col})
         THEN outputs' = outputs \cup {output_path} /\ logged' = logged
         ELSE outputs' = outputs /\ logged' = "KeyError"
    /\ UNCHANGED <<pipeFrame, df, raised, cluster_map>>

PredictPlotGmm ==
    /\ pc = "pipe_plot_gmm"
    /\ PredictPlotRiskTrend("gmm_p_failure", "gmm_risk_flag", "risk_trend_gmm.png")
    /\ pc' = "pipe_plot_logreg"

PredictPlotLogreg ==
    /\ pc = "pipe_plot_logreg"
    /\ PredictPlotRiskTrend("logreg_p_failure", "logreg_risk_flag", "risk_trend_logreg.png")
    /\ pc' = "pipe_done"

\* risk_logic_generator.main: gmm, gmm_scaler, merged, cluster_map = train_gmm(...)
TrainGmmStep ==
    /\ pc = "pipe_train_gmm"
    /\ \E cluster_ids \in [DOMAIN df.rows -> ClusterIds] :
          LET res == train_gmm(df, Features, ViabilityThreshold, "viability_pct", cluster_ids)
          IN  /\ df' = res.df
              /\ cluster_map' = res.cluster_map
              /\ raised' = res.raised
              /\ pc' = IF res.raised = "none" THEN "pipe_train_logistic" ELSE "pipe_aborted"
    /\ UNCHANGED <<pipeFrame, logged, outputs>>

\* train_logistic: df['label'] = (viability < threshold); the fit raises on a
\* label column with one class only
TrainLogisticStep ==
    /\ pc = "pipe_train_logistic"
    /\ LET label == [i \in DOMAIN df.rows |->
                        BelowThreshold(df.rows[i]["viability_pct"], ViabilityThreshold)]
           d1 == SetColumn(df, "label", label)
       IN  IF \A i, j \in DOMAIN label : label[i] = label[j]
             THEN df' = d1 /\ raised' = "ValueError" /\ pc' = "pipe_aborted"
             ELSE /\ \E probs \in [DOMAIN df.rows -> ProbValues] :
                        df' = SetColumn(d1, "logreg_p_failure",
                                        [i \in DOMAIN df.rows |-> Some(probs[i])])
                  /\ raised' = "none"
                  /\ pc' = "pipe_plot_models"
    /\ UNCHANGED <<pipeFrame, logged, cluster_map, outputs>>

\* plot_models(merged, features, out_dir, ...)
TrainPlotModels ==
    /\ pc = "pipe_plot_models"
    /\ outputs' = outputs \cup {"model_comparison.png"}
    /\ pc' = "pipe_save"
    /\ UNCHANGED <<pipeFrame, df, raised, logged, cluster_map>>

\* save_artifacts(...): the two models, the metadata and the cluster map
TrainSaveArtifacts ==
    /\ pc = "pipe_save"
    /\ outputs' = outputs \cup {"risk_model_gmm.pkl", "risk_model_logreg.pkl",
                               "risk_model_metadata.json", "gmm_cluster_map.json"}
    /\ pc' = "pipe_done"
    /\ UNCHANGED <<pipeFrame, df, raised, logged, cluster_map>>

NextPipeline ==
    \/ PipelineMerge
    \/ SummaryApplyRiskRules
    \/ SummaryExportReport
    \/ SummaryAppendToMasterLog
    \/ SummaryPlotRiskTrend
    \/ PredictLoadModels
    \/ PredictApplyGmm
    \/ PredictApplyLogreg
    \/ PredictAppendToLog
    \/ PredictPlotGmm
    \/ PredictPlotLogreg
    \/ TrainGmmStep
    \/ TrainLogisticStep
    \/ TrainPlotModels
    \/ TrainSaveArtifacts

SpecPipeline == InitPipeline /\ [][NextPipeline]_vars

(***************************************************************************)
(* Properties of the loaders (checked under SpecLoad).                     *)
(***************************************************************************)
LoadFinished == pc \in {"load_done", "load_raised"}

ReadFailed == file.kind # "table"

\* a column the loader declares as required is not in the parsed file
DeclaredColumnMissing ==
    /\ file.kind = "table"
    /\ \/ variant = "load_data" /\ ~HasColumn(file.table, ValueColumn)
       \/ variant \in {"load_defect_data", "load_defect_data_spatial"}
             /\ ~(DefectColumns \subseteq Range(file.table.columns))

ApplySucceeded == pc = "apply_done" /\ logged = "none"

\* C1: after a successful application with method 'gmm' or 'logreg', every row
\* has {method}_risk_flag == ({method}_p_failure > flag_threshold), strictly: a
\* p_failure equal to the threshold (or missing) is not flagged.
C1_FlagIsThresholdComparison ==
    (ApplySucceeded /\ method_label \in {"gmm", "logreg"}) =>
        \A r \in Range(df.rows) :
            LET p == r[method_label \o "_p_failure"]
                flag == r[method_label \o "_risk_flag"]
            IN  /\ flag = (Len(p) = 1 /\ p[1] > flag_threshold)
                /\ (Len(p) = 1 /\ p[1] = flag_threshold) => flag = FALSE

\* a successful gmm application leaving one row exactly on the threshold and
\* another row flagged
C1_Witness ==
    /\ ApplySucceeded
    /\ method_label = "gmm"
    /\ \E r \in Range(df.rows) : r["gmm_p_failure"] = Some(flag_threshold)
    /\ \E r \in Range(df.rows) : r["gmm_risk_flag"]


(***************************************************************************)
(* Properties of the merger (checked under SpecMerge).                     *)
(***************************************************************************)
MergeReturned == pc = "merge_done"

MergeOk == pc = "merge_done" /\ logged = "none"

InnerVariants == {"merge_batch_and_qc", "merge_data"}

\* at most one row per value of the key column (vacuous without the column)
UniqueKey(d, key) ==
    HasColumn(d, key) =>
        \A i, j \in DOMAIN d.rows : d.rows[i][key] = d.rows[j][key] => i = j

RowsOfBatch(b) == {k \in DOMAIN df.rows : df.rows[k]["batch_id"] = b}

\* C6 (as stated): for all batch, QC and COA tables the merged row count is
\* <= count(batch) with an inner QC join and exactly count(batch) with a left
\* QC join, repeated keys in QC or COA included.
C6_RowCountAnyTables ==
    MergeReturned =>
        /\ variant \in InnerVariants => Len(df.rows) <= Len(batch_df.rows)
        /\ variant = "merge_batch_data" => Len(df.rows) = Len(batch_df.rows)

\* C6 (amended): when QC holds at most one row per batch_id and COA at most one
\* row per supplier_lot, the merged row count is <= count(batch) with an inner QC
\* join, and exactly count(batch) with a left QC join provided the merge did not
\* fail on a missing key column.
C6_RowCountUniqueKeys ==
    (MergeReturned /\ UniqueKey(qc_df, "batch_id") /\ UniqueKey(coa_df, "supplier_lot")) =>
        /\ variant \in InnerVariants => Len(df.rows) <= Len(batch_df.rows)
        /\ (variant = "merge_batch_data" /\ logged = "none")
              => Len(df.rows) = Len(batch_df.rows)

\* a left-join merge of two batches, only one of them with a QC row
C6_Witness ==
    /\ MergeOk
    /\ variant = "merge_batch_data"
    /\ UniqueKey(qc_df, "batch_id") /\ UniqueKey(coa_df, "supplier_lot")
    /\ Len(batch_df.rows) = 2
    /\ Len(qc_df.rows) = 1
    /\ Len(coa_df.rows) = 2
    /\ Len(df.rows) = 2

\* C7 (as stated): every batch record contributes at most one merged row,
\* whatever the QC and COA tables contain.
C7_AtMostOneRowAnyTables ==
    (MergeOk /\ HasColumn(df, "batch_id")) =>
        \A i \in DOMAIN batch_df.rows :
            Cardinality(RowsOfBatch(batch_df.rows[i]["batch_id"])) <= 1

\* C7 (amended): every batch record contributes at most one merged row when QC
\* holds at most one row per batch_id and COA at most one row per supplier_lot.
C7_AtMostOneRowUniqueKeys ==
    (MergeOk /\ HasColumn(df, "batch_id")
        /\ UniqueKey(qc_df, "batch_id") /\ UniqueKey(coa_df, "supplier_lot")) =>
        \A i \in DOMAIN batch_df.rows :
            Cardinality(RowsOfBatch(batch_df.rows[i]["batch_id"])) <= 1

\* an inner-join merge where both batches have their QC row and COA row
C7_Witness ==
    /\ MergeOk
    /\ variant = "merge_batch_and_qc"
    /\ UniqueKey(qc_df, "batch_id") /\ UniqueKey(coa_df, "supplier_lot")
    /\ Len(batch_df.rows) = 2
    /\ Len(qc_df.rows) = 2
    /\ Len(coa_df.rows) = 2
    /\ \A i \in DOMAIN batch_df.rows :
          Cardinality(RowsOfBatch(batch_df.rows[i]["batch_id"])) = 1

LotInCoa(lot) == \E j \in DOMAIN coa_df.rows : coa_df.rows[j]["supplier_lot"] = lot

\* C8: the join with COA on supplier_lot drops no row: every row of the table
\* joined so far appears in the output with its batch/QC cells unchanged, and a
\* row whose supplier_lot is not in COA has null certificate cells.
C8_CoaJoinKeepsRows ==
    MergeOk =>
        /\ Len(df.rows) >= Len(joined.rows)
        /\ \A i \in DOMAIN joined.rows :
              \E k \in DOMAIN df.rows :
                  \A c \in Range(joined.columns) : df.rows[k][c] = joined.rows[i][c]
        /\ \A k \in DOMAIN df.rows :
              ~LotInCoa(df.rows[k]["supplier_lot"]) =>
                  \A c \in Range(coa_df.columns) \ {"supplier_lot"} : df.rows[k][c] = NA

\* COA has rows, yet one joined row's lot is not among them and is kept with NA
C8_Witness ==
    /\ MergeOk
    /\ Len(coa_df.rows) > 0
    /\ Len(joined.rows) = 2
    /\ \E k \in DOMAIN df.rows :
          ~LotInCoa(df.rows[k]["supplier_lot"]) /\ df.rows[k]["cert_date"] = NA
    /\ \E k \in DOMAIN df.rows : LotInCoa(df.rows[k]["supplier_lot"])

\* a key column is absent from a table handed to one of the two pd.merge calls
MergeKeyMissing ==
    \/ variant # "merge_new_data"
          /\ (~HasColumn(batch_df, "batch_id") \/ ~HasColumn(qc_df, "batch_id"))
    \/ ~HasColumn(joined, "supplier_lot")
    \/ ~HasColumn(coa_df, "supplier_lot")

\* C9: when batch_id is absent from batch or QC, or supplier_lot from the
\* intermediate or COA table, merge raises nothing and returns an empty table.
C9_MissingKeyReturnsEmpty ==
    (pc # "merge_call" /\ MergeKeyMissing) =>
        /\ raised = "none"
        /\ pc = "merge_done"
        /\ df = EmptyDataFrame
        /\ logged = "KeyError"

\* QC is the empty table of a failed load while the batch table has rows
C9_Witness ==
    /\ MergeReturned
    /\ variant = "merge_batch_data"
    /\ qc_df = EmptyDataFrame
    /\ Len(batch_df.rows) > 0
    /\ df = EmptyDataFrame

(***************************************************************************)
(* Properties of the rule-based scorer (checked under SpecRules).          *)
(***************************************************************************)
RulesDone == pc = "rules_done"

ScoredRows == IF RulesDone THEN Range(df.rows) ELSE {}

\* C2 (as stated): there is one fixed flag_threshold with
\* risk_flag == (risk_score > flag_threshold) for every rule-scored record.
C2_OneThresholdForRules ==
    \E t \in (0 - 1)..ScoreScale :
        \A r \in ScoredRows : r["risk_flag"] = (r["risk_score"] > t)

\* C2 (amended): with flag_threshold = 0 a flagged record always scores above
\* the threshold, and risk_flag == (risk_score > 0) for every record whose two
\* rule conditions agree; where exactly one condition holds the flag is False.
C2_FlagVsScoreAtZero ==
    \A r \in ScoredRows :
        LET condA == r["component_A"] > CompAThreshold
            condPh == r["avg_pH"] < PhThreshold
        IN  /\ r["risk_flag"] => r["risk_score"] > 0
            /\ (condA = condPh) => (r["risk_flag"] = (r["risk_score"] > 0))
            /\ (condA # condPh) => ~r["risk_flag"]

\* a table holding a flagged record scoring 0.5 and an unflagged one scoring 1
C2_Witness ==
    /\ RulesDone
    /\ \E r \in ScoredRows : r["risk_flag"] /\ 2 * r["risk_score"] = ScoreScale
    /\ \E r \in ScoredRows : ~r["risk_flag"] /\ r["risk_score"] = ScoreScale

\* C3: risk_score = clip(0.5*(A-0.70)/0.1 + 0.5*(6.9-pH)/0.2, 0, 1) for every
\* record; the record A=0.75, pH=6.8 gets risk_score 0.5 and risk_flag True.
\* (200 * score = 10*(100A - 70) + 5*(690 - 100pH) before clipping.)
C3_ScoreFormula ==
    \A r \in ScoredRows :
        LET raw == 10 * (r["component_A"] - 70) + 5 * (690 - r["avg_pH"])
        IN  /\ raw < 0 => r["risk_score"] = 0
            /\ raw > 200 => r["risk_score"] = 200
            /\ (raw >= 0 /\ raw <= 200) => r["risk_score"] = raw
            /\ (r["component_A"] = 75 /\ r["avg_pH"] = 680)
                   => (r["risk_score"] = 100 /\ r["risk_flag"] = TRUE)

C3_Witness ==
    /\ RulesDone
    /\ \E r \in ScoredRows : r["component_A"] = 75 /\ r["avg_pH"] = 680
    /\ \E r \in ScoredRows : r["risk_score"] > 0 /\ r["risk_score"] < 100

\* C4: risk_score is non-decreasing in component_A (avg_pH fixed), non-increasing
\* in avg_pH (component_A fixed), and within [0,1] for every input.
C4_MonotoneAndClipped ==
    /\ \A r \in ScoredRows : r["risk_score"] >= 0 /\ r["risk_score"] <= ScoreScale
    /\ \A r, q \in ScoredRows :
          /\ (r["avg_pH"] = q["avg_pH"] /\ r["component_A"] <= q["component_A"])
                => r["risk_score"] <= q["risk_score"]
          /\ (r["component_A"] = q["component_A"] /\ r["avg_pH"] <= q["avg_pH"])
                => r["risk_score"] >= q["risk_score"]

\* two records at the same pH, one far below and one far above the threshold,
\* clipped at 0 and at 1
C4_Witness ==
    /\ RulesDone
    /\ \E r, q \in ScoredRows :
          /\ r["avg_pH"] = q["avg_pH"]
          /\ r["component_A"] < CompAThreshold - 1000
          /\ q["component_A"] > CompAThreshold + 1000
          /\ r["risk_score"] = 0
          /\ q["risk_score"] = ScoreScale

\* C5: risk_flag is True exactly when component_A > 0.70 and avg_pH < 6.9, both
\* strict: a record with component_A = 0.70 or avg_pH = 6.9 is never flagged.
C5_FlagRule ==
    \A r \in ScoredRows :
        /\ r["risk_flag"] = (r["component_A"] > CompAThreshold /\ r["avg_pH"] < PhThreshold)
        /\ (r["component_A"] = CompAThreshold \/ r["avg_pH"] = PhThreshold)
              => r["risk_flag"] = FALSE

C5_Witness ==
    /\ RulesDone
    /\ \E r \in ScoredRows : r["component_A"] = CompAThreshold /\ r["avg_pH"] < PhThreshold
    /\ \E r \in ScoredRows : r["risk_flag"]

\* C30: every flagged record has a score above 0; a record with avg_pH >= 6.9
\* whose component_A is high enough for the unclipped score to reach 1 scores
\* exactly 1 and is not flagged, so two records with the same score can carry
\* different flags.
C30_FlagImpliesPositiveScoreOnly ==
    \A r \in ScoredRows :
        /\ (r["risk_flag"] = TRUE) => r["risk_score"] >= 1
        /\ (r["avg_pH"] >= 690
              /\ 10 * (r["component_A"] - 70) + 5 * (690 - r["avg_pH"]) >= 200)
             => (r["risk_score"] = 200 /\ r["risk_flag"] = FALSE)

\* one table with two records scoring 1, one flagged and one at avg_pH = 6.9
\* not flagged
C30_Witness ==
    /\ RulesDone
    /\ \E r, q \in ScoredRows :
          /\ r["risk_score"] = q["risk_score"]
          /\ r["risk_score"] = ScoreScale
          /\ r["risk_flag"] /\ ~q["risk_flag"]
          /\ q["avg_pH"] = PhThreshold

\* C26: a call of the rule scorer on a table lacking component_A or avg_pH
\* raises KeyError to its caller (nothing is caught or logged) and leaves the
\* table as it was; on any other table of numeric features it keeps the row
\* count, the row order, the columns already there and every value in them,
\* and adds exactly risk_flag and risk_score after them; it touches no other
\* state.
C26_ScorerFrame ==
    [][pc = "rules_call" =>
          /\ logged' = "none"
          /\ UNCHANGED <<applyVars, mergeVars, loadVars, spcVars, logVars>>
          /\ IF {"component_A", "avg_pH"} \subseteq Range(df.columns)
               THEN /\ raised' = "none"
                    /\ Len(df'.rows) = Len(df.rows)
                    /\ df'.columns = df.columns \o <<"risk_flag", "risk_score">>
                    /\ \A i \in DOMAIN df.rows :
                          /\ DOMAIN df'.rows[i] = Range(df'.columns)
                          /\ \A c \in Range(df.columns) : df'.rows[i][c] = df.rows[i][c]
               ELSE /\ raised' = "KeyError"
                    /\ pc' = "rules_raised"
                    /\ df' = df]_vars

\* a scored table of two different batches that came with a batch_id column
C26_Witness ==
    /\ RulesDone
    /\ df.columns = <<"batch_id", "component_A", "avg_pH", "risk_flag", "risk_score">>
    /\ Len(df.rows) = 2
    /\ df.rows[1]["batch_id"] # df.rows[2]["batch_id"]
    /\ df.rows[1]["risk_flag"] # df.rows[2]["risk_flag"]

(***************************************************************************)
(* Properties of the outlier detectors (checked under SpecSpc).            *)
(***************************************************************************)
DetectorCalled == variant # "compute_spc_metrics" /\ pc \in {"spc_done", "spc_raised"}

UsesZscore ==
    \/ variant = "detect_outliers_zscore"
    \/ variant = "detect_outliers" /\ method = "zscore"

UsesIqr ==
    \/ variant = "detect_outliers_iqr"
    \/ variant = "detect_outliers" /\ method = "iqr"

\* at least two points and all of them equal: the sample standard deviation is 0
StdIsZero == Len(data) >= 2 /\ \A i, j \in DOMAIN data : data[i] = data[j]

LimitGap(x, limit) == limit.mean[2] * x - limit.mean[1]

LimitSquares(x, limit) ==
    [gap |-> LimitGap(x, limit) * LimitGap(x, limit) * limit.std[2],
     span |-> limit.k * limit.k * limit.mean[2] * limit.mean[2] * limit.std[1]]

AboveLimit(x, limit) ==
    LimitGap(x, limit) > 0 /\ LimitSquares(x, limit).gap > LimitSquares(x, limit).span

BelowLimit(x, limit) ==
    LimitGap(x, limit) < 0 /\ LimitSquares(x, limit).gap > LimitSquares(x, limit).span

OnLimit(x, limit) ==
    /\ LimitSquares(x, limit).gap = LimitSquares(x, limit).span
    /\ (LimitGap(x, limit) > 0) = (limit.k > 0)

\* C28: for data of at least two points that are not all equal, the z-score
\* detector at threshold 3.0 flags a point exactly when the point is above the
\* UCL or below the LCL that compute_spc_metrics returns for the same data; a
\* point equal to the UCL or to the LCL is not flagged.
C28_ZscoreFlagsOutsideControlLimits ==
    (DetectorCalled /\ UsesZscore /\ threshold = 6 /\ Len(data) >= 2 /\ ~StdIsZero) =>
        LET limits == compute_spc_metrics(data)
        IN  /\ pc = "spc_done"
            /\ limits.UCL # NaN
            /\ limits.LCL # NaN
            /\ \A i \in DOMAIN data :
                  /\ outliers[i] = (AboveLimit(data[i], limits.UCL)
                                       \/ BelowLimit(data[i], limits.LCL))
                  /\ (OnLimit(data[i], limits.UCL) \/ OnLimit(data[i], limits.LCL))
                        => ~outliers[i]

\* a chart with a flagged point above the UCL
C28_Witness ==
    /\ DetectorCalled /\ UsesZscore /\ threshold = 6
    /\ Len(data) = 13
    /\ data[13] = 9
    /\ outliers = [i \in 1..13 |-> i = 13]

\* the k-th smallest measurement, by rank
OrderStatistic(k) ==
    CHOOSE v \in Range(data) :
        /\ Cardinality({i \in DOMAIN data : data[i] < v}) < k
        /\ k <= Cardinality({i \in DOMAIN data : data[i] <= v})

\* four times the quartile k/4 of the data: position (n-1) * k/4 among the
\* order statistics, interpolated linearly
Quartile4(k) ==
    LET h == (Len(data) - 1) * k
    IN  IF (h % 4) = 0 THEN 4 * OrderStatistic((h \div 4) + 1)
        ELSE (4 - (h % 4)) * OrderStatistic((h \div 4) + 1)
                 + (h % 4) * OrderStatistic((h \div 4) + 2)

\* C13: the IQR detector flags a point exactly when it is strictly below
\* Q1 - threshold * IQR or strictly above Q3 + threshold * IQR; with threshold 0
\* these are the points outside [Q1, Q3], and a point equal to Q1 or to Q3 is
\* not flagged.
C13_IqrFences ==
    (DetectorCalled /\ UsesIqr)
        => /\ raised = "none"
           /\ DOMAIN outliers = DOMAIN data
           /\ \A i \in DOMAIN data :
                 /\ outliers[i] =
                       (\/ 8 * data[i] < 2 * Quartile4(1) - threshold * (Quartile4(3) - Quartile4(1))
                        \/ 8 * data[i] > 2 * Quartile4(3) + threshold * (Quartile4(3) - Quartile4(1)))
                 /\ threshold = 0 =>
                       /\ outliers[i] = (4 * data[i] < Quartile4(1) \/ 4 * data[i] > Quartile4(3))
                       /\ (4 * data[i] = Quartile4(1) \/ 4 * data[i] = Quartile4(3))
                             => outliers[i] = FALSE

C13_Witness ==
    /\ DetectorCalled /\ UsesIqr
    /\ threshold = 0
    /\ \E i \in DOMAIN data : 4 * data[i] = Quartile4(1) /\ Quartile4(1) < Quartile4(3)
    /\ \E i \in DOMAIN data : outliers[i]

\* C14: detect_outliers called with a method other than 'zscore' and 'iqr'
\* raises ValueError and returns no flags, whatever the data is.
C14_InvalidMethodRaises ==
    (DetectorCalled /\ variant = "detect_outliers" /\ method \notin {"zscore", "iqr"})
        => /\ raised = "ValueError"
           /\ pc = "spc_raised"
           /\ outliers = <<>>

C14_Witness ==
    /\ DetectorCalled
    /\ variant = "detect_outliers"
    /\ method = "mad"
    /\ Len(data) = MaxLen
    /\ raised = "ValueError"

(***************************************************************************)
(* Properties of the script runs (checked under SpecRun).                  *)
(***************************************************************************)
RunLoaded == pc # "run_load"

\* the input file parses, but a column the script requires is not in it
RunSchemaFailure ==
    /\ file.kind = "table"
    /\ \/ variant = "spc_runner" /\ "Thickness_nm" \notin Range(file.table.columns)
       \/ /\ variant \in {"defect_heatmap_runner", "spatial_defect_map_runner"}
          /\ \E c \in {"x", "y", "type", "severity"} : c \notin Range(file.table.columns)

\* C11: a required column missing from the parsed input is a hard validation
\* error: the loader raises ValueError, nothing catches it, the run ends there
\* and no later step (metrics, detection, plot, save) has run.
C11_SchemaFailureAbortsRun ==
    (RunLoaded /\ RunSchemaFailure)
        => /\ raised = "ValueError"
           /\ logged = "none"
           /\ pc = "run_aborted"
           /\ outputs = {}
           /\ stats = None
           /\ outliers = <<>>

C11_Witness ==
    /\ variant = "spc_runner"
    /\ RunSchemaFailure
    /\ Len(file.table.rows) > 0
    /\ pc = "run_aborted"

(***************************************************************************)
(* Properties of the log appender (checked under SpecLog).                 *)
(***************************************************************************)
TheLog == log_files["log.csv"]

LogBefore == log_files["log_before.csv"]

\* the latest call returned without raising and without a caught exception
AppendSucceeded == Len(calls) >= 1 /\ raised = "none" /\ logged = "none"

\* the text of the rows of frame d under the requested columns
LoggedText(d) ==
    [i \in DOMAIN d.rows |-> [c \in Range(features_to_log) |-> d.rows[i][c][2]]]

\* C15: appending to a log path that does not exist creates the file, and the
\* file holds exactly the rows of the input, in their order, under the
\* requested columns in the requested order.
C15_NewLogHoldsInput ==
    (pc = "log_call" /\ Len(calls) = 1 /\ LogBefore.kind = "missing")
        => /\ AppendSucceeded
           /\ TheLog.kind = "table"
           /\ TheLog.table.columns = features_to_log
           /\ TheLog.table.rows = LoggedText(calls[1])

C15_Witness ==
    /\ pc = "log_call" /\ Len(calls) = 1 /\ LogBefore.kind = "missing"
    /\ features_to_log = <<"risk_flag", "risk_score", "batch_id">>
    /\ Len(calls[1].rows) = MaxRows
    /\ TheLog.kind = "table"

\* C16: appending X and then Y leaves the same log as appending the rows of X
\* followed by the rows of Y in one call, whatever was at the log path before.
C16_AppendIsAssociative ==
    pc = "log_compared" => log_files["log_once.csv"] = TheLog

C16_Witness ==
    /\ pc = "log_compared"
    /\ LogBefore = OtherLog
    /\ Len(calls[1].rows) > 0
    /\ Len(calls[2].rows) > 0
    /\ calls[1] # calls[2]
    /\ logged = "none"

\* the text of the rows of frame d as they stand in a log with columns cols
TextUnder(d, cols) ==
    [i \in DOMAIN d.rows |->
        [c \in Range(cols) |-> IF c \in Range(features_to_log) THEN d.rows[i][c][2] ELSE ""]]

\* the rows at the log path, none when there is no file
RowsOf(f) == IF f.kind = "table" THEN f.table.rows ELSE <<>>

\* a step in which one more call returns without raising or catching anything
SuccessfulAppendStep ==
    /\ pc = "log_call" /\ pc' = "log_call"
    /\ Len(calls') = Len(calls) + 1
    /\ logged' = "none"

\* the log holds nothing but rows the appender wrote: it started absent, or
\* as a log with the requested columns
LogOfTheAppender ==
    \/ LogBefore.kind = "missing"
    \/ LogBefore.kind = "table" /\ LogBefore.table.columns = features_to_log

\* C17: successful appends only grow the log: the rows already there stay, in
\* order, as a prefix; the new rows follow, also when their batch_id is already
\* in the log; and a log that started absent has as many rows as were appended.
C17_LogOnlyGrows ==
    [][(SuccessfulAppendStep /\ LogOfTheAppender)
          => /\ TheLog'.kind = "table"
             /\ RowsOf(TheLog') =
                   RowsOf(TheLog) \o TextUnder(calls'[Len(calls')], TheLog'.table.columns)
             /\ LogBefore.kind = "missing" => Len(RowsOf(TheLog')) = Len(AllRows(calls'))]_vars

C17_Witness ==
    /\ pc = "log_call" /\ Len(calls) = 2 /\ logged = "none"
    /\ LogBefore.kind = "missing"
    /\ Len(calls[1].rows) > 0
    /\ \E i \in DOMAIN calls[1].rows : \E j \in DOMAIN calls[2].rows :
          calls[1].rows[i]["batch_id"] = calls[2].rows[j]["batch_id"]
    /\ Len(RowsOf(TheLog)) = Len(calls[1].rows) + Len(calls[2].rows)

\* a step in which the rows of the first, successful call are appended again
SameRowsAgainStep ==
    /\ SuccessfulAppendStep
    /\ Len(calls) = 1
    /\ logged = "none"
    /\ calls'[2] = calls[1]

\* C27: a call of the appender with records that lack a requested column
\* raises KeyError to its caller, with nothing caught, and leaves every file as
\* it was: an existing log keeps its content and a missing log stays missing.
C27_MissingColumnRaisesBeforeFileAccess ==
    [][(/\ pc = "log_call"
        /\ Len(calls') = Len(calls) + 1
        /\ \E c \in Range(features_to_log) :
               c \notin Range(calls'[Len(calls')].columns)) =>
          /\ raised' = "KeyError"
          /\ logged' = "none"
          /\ pc' = "log_raised"
          /\ log_files' = log_files]_vars

\* a second append, after one that wrote the log, raised on a missing column
C27_Witness ==
    /\ pc = "log_raised"
    /\ raised = "KeyError"
    /\ Len(calls) = 2
    /\ TheLog.kind = "table"
    /\ TheLog # LogBefore

\* C18 as stated: appending the same rows a second time leaves the log as it
\* was after the first append.
C18_SecondAppendChangesNothing ==
    [][SameRowsAgainStep => TheLog' = TheLog]_vars

\* C18 amended: the appender does not deduplicate; appending the same rows a
\* second time appends them again after the rows already there, so the log is
\* unchanged only when the appended frame has no rows.
C18_SecondAppendDuplicates ==
    [][SameRowsAgainStep
          => /\ RowsOf(TheLog') =
                   RowsOf(TheLog) \o TextUnder(calls[1], TheLog'.table.columns)
             /\ Len(RowsOf(TheLog')) = Len(RowsOf(TheLog)) + Len(calls[1].rows)
             /\ (TheLog' = TheLog) = (calls[1].rows = <<>>)]_vars

C18_Witness ==
    /\ pc = "log_call" /\ Len(calls) = 2 /\ logged = "none"
    /\ calls[2] = calls[1]
    /\ Len(calls[1].rows) = MaxRows
    /\ LogBefore.kind = "missing"
    /\ Len(RowsOf(TheLog)) = 2 * MaxRows

(***************************************************************************)
(* Properties of concurrent appends (checked under SpecRace).              *)
(***************************************************************************)
BothWrote == Len(calls) = 2 /\ \A r \in RunIds : runs[r].pc = "done"

\* both runs looked at the log before either of them wrote it
BothReadFirst == \A r \in RunIds : runs[r].seen = LogBefore

\* C19: two runs appending at once are not safe.  When both have read the log
\* before either writes it, the log ends as the rows that were there before
\* followed by the rows of the run that wrote last, exactly as if the other
\* run had never been made: the rows of the run that wrote first are lost.
C19_LastWriterWins ==
    (BothWrote /\ BothReadFirst)
        => /\ TheLog = append_to_log(calls[2], LogBefore, features_to_log).file
           /\ Len(RowsOf(TheLog)) = Len(RowsOf(LogBefore)) + Len(calls[2].rows)
           /\ LogOfTheAppender =>
                 RowsOf(TheLog) = RowsOf(LogBefore) \o TextUnder(calls[2], features_to_log)

C19_Witness ==
    /\ BothWrote /\ BothReadFirst
    /\ Len(RowsOf(LogBefore)) > 0
    /\ Len(calls[2].rows) > 0
    /\ \E i \in DOMAIN calls[1].rows :
          \A j \in DOMAIN RowsOf(TheLog) :
              RowsOf(TheLog)[j]["batch_id"] # calls[1].rows[i]["batch_id"][2]

(***************************************************************************)
(* The gmm branch without a cluster map (checked under SpecApply).         *)
(***************************************************************************)
\* C20: applying the gmm model without a cluster map fails with the explicit
\* missing-cluster-map error, which is caught inside the function, and the
\* returned table has none of the gmm columns: no gmm_cluster, no
\* gmm_p_failure and no gmm_risk_flag.
C20_NoGmmColumnsOnFailure ==
    (/\ pc = "apply_done"
     /\ method_label = "gmm"
     /\ cluster_map = None
     /\ \A f \in Range(Features) : HasColumn(df, f))
        => /\ logged = "ValueError"
           /\ raised = "none"
           /\ ~HasColumn(df, "gmm_cluster")
           /\ ~HasColumn(df, "gmm_p_failure")
           /\ ~HasColumn(df, "gmm_risk_flag")

\* the columns a call added to the table
AddedColumns == Range(df'.columns) \ Range(df.columns)

\* what the model of the call predicted, read back from the columns written:
\* the cluster ids, and the class-1 probabilities
PredictedClusters ==
    [i \in DOMAIN df.rows |->
        IF HasColumn(df', "gmm_cluster") THEN df'.rows[i]["gmm_cluster"]
        ELSE CHOOSE c \in ClusterIds : TRUE]

PredictedProbs ==
    [i \in DOMAIN df.rows |->
        IF HasColumn(df', "logreg_p_failure") THEN df'.rows[i]["logreg_p_failure"][1]
        ELSE IF HasColumn(df', method_label \o "_p_failure") /\ method_label # "gmm"
          THEN df'.rows[i][method_label \o "_p_failure"][1]
        ELSE CHOOSE q \in ProbValues : TRUE]

GmmApplied == pc = "apply_done" /\ method_label = "gmm" /\ cluster_map # None

\* a row whose cluster id is not a key of cluster_map
UnseenCluster(r) == r["gmm_cluster"] \notin DOMAIN cluster_map[1]

\* C21: a cluster id that is not a key of cluster_map is an error condition of
\* model application: the call reports an error, and no record is silently left
\* with a missing gmm_p_failure and a gmm_risk_flag of False.
C21_UnseenClusterIsError ==
    (GmmApplied /\ HasColumn(df, "gmm_cluster") /\ \E r \in Range(df.rows) : UnseenCluster(r))
        => /\ logged # "none"
           /\ \A r \in Range(df.rows) :
                 UnseenCluster(r) =>
                    ~(/\ HasColumn(df, "gmm_risk_flag")
                      /\ r["gmm_p_failure"] = NaN
                      /\ r["gmm_risk_flag"] = FALSE)

\* C22: after a successful gmm application each record's gmm_p_failure is the
\* entry of cluster_map under its gmm_cluster (missing when the map has no such
\* key), so records in the same cluster have the same gmm_p_failure and the
\* same gmm_risk_flag.
C22_PFailureIsMapLookup ==
    (GmmApplied /\ logged = "none")
        => /\ \A r \in Range(df.rows) :
                 /\ ~UnseenCluster(r) => r["gmm_p_failure"] = <<cluster_map[1][r["gmm_cluster"]]>>
                 /\ UnseenCluster(r) => r["gmm_p_failure"] = <<>>
           /\ \A r, s \in Range(df.rows) :
                 r["gmm_cluster"] = s["gmm_cluster"]
                    => /\ r["gmm_p_failure"] = s["gmm_p_failure"]
                       /\ r["gmm_risk_flag"] = s["gmm_risk_flag"]

C22_Witness ==
    /\ GmmApplied /\ logged = "none"
    /\ DOMAIN cluster_map[1] = ClusterIds
    /\ cluster_map[1][0] # cluster_map[1][1]
    /\ Len(df.rows) = MaxRows
    /\ \E i, j \in DOMAIN df.rows :
          /\ i # j
          /\ df.rows[i]["gmm_cluster"] = df.rows[j]["gmm_cluster"]
          /\ df.rows[i]["gmm_risk_flag"]

(***************************************************************************)
(* Properties of mixture training (checked under SpecTrain).               *)
(***************************************************************************)
Trained == pc = "train_done"

\* the training rows the mixture put in cluster c
RowsInCluster(c) == {i \in DOMAIN df.rows : df.rows[i]["gmm_cluster"] = c}

\* C23: the cluster_map returned by mixture training has, for each cluster that
\* received a training row, the fraction of that cluster's rows whose target is
\* strictly below the threshold, a value in [0, 1]; and each training row's
\* gmm_p_failure is the cluster_map entry of its own cluster.
C23_ClusterMapIsFailureFraction ==
    Trained
        => /\ cluster_map # None
           /\ DOMAIN cluster_map[1] = {c \in ClusterIds : RowsInCluster(c) # {}}
           /\ \A c \in DOMAIN cluster_map[1] :
                 /\ cluster_map[1][c][2] = Cardinality(RowsInCluster(c))
                 /\ cluster_map[1][c][1] =
                       Cardinality({i \in RowsInCluster(c) :
                           /\ Len(df.rows[i]["viability_pct"]) = 1
                           /\ df.rows[i]["viability_pct"][1] < 90})
                 /\ 0 <= cluster_map[1][c][1]
                 /\ cluster_map[1][c][1] <= cluster_map[1][c][2]
           /\ \A r \in Range(df.rows) : r["gmm_p_failure"] = cluster_map[1][r["gmm_cluster"]]

C23_Witness ==
    /\ Trained
    /\ \E c \in DOMAIN cluster_map[1] :
          /\ cluster_map[1][c][1] = 1
          /\ cluster_map[1][c][2] = 2
          /\ \E i \in RowsInCluster(c) : df.rows[i]["viability_pct"] = <<90>>
    /\ \E c \in ClusterIds : c \notin DOMAIN cluster_map[1]

(***************************************************************************)
(* Properties of the batch pipelines (checked under SpecPipeline).         *)
(***************************************************************************)
\* the merge step of the run has returned
Merged == pc # "pipe_merge"

\* the columns a scoring, training or model-application step adds
ScoringColumns ==
    {"risk_flag", "risk_score", "gmm_cluster", "gmm_p_failure", "gmm_risk_flag",
     "logreg_p_failure", "logreg_risk_flag", "label"}

\* C24: in each of the three batch pipelines, a run whose merged table is
\* empty has ended after the merge: it scored nothing, wrote no report, no
\* history log, no model artifact and no plot, and raised nothing.
C24_EmptyMergeAbortsDownstream ==
    (Merged /\ (Len(df.columns) = 0 \/ Len(df.rows) = 0)) =>
        /\ pc = "pipe_done"
        /\ outputs = {}
        /\ \A c \in ScoringColumns : ~HasColumn(df, c)
        /\ cluster_map = None
        /\ raised = "none"

\* a merge that failed on a missing key column, in each pipeline
C24_Witness ==
    /\ Merged
    /\ Len(df.rows) = 0
    /\ logged = "KeyError"
    /\ Len(batch_df.rows) > 0
    /\ pc = "pipe_done"

\* C25: when a model application fails in the inference pipeline (feature
\* column missing), the run goes on through the history-log append and the
\* trend plots and ends without an unhandled error.
C25_ApplyFailureRunContinues ==
    (/\ variant = "predict_new_batch_risks"
     /\ pc \notin {"pipe_merge", "pipe_models", "pipe_apply_gmm"}
     /\ \E f \in Range(Features) : ~HasColumn(df, f)) =>
        /\ raised = "none"
        /\ pc # "pipe_aborted"

(***************************************************************************)
(* The scripts together: each behaviour is one of the component runs.      *)
(***************************************************************************)
Init ==
    \/ InitRules \/ InitApply \/ InitMerge \/ InitLoad
    \/ InitSpc \/ InitRun \/ InitLog \/ InitRace
    \/ InitTrain \/ InitPipeline

Next ==
    \/ NextRules \/ NextApply \/ NextMerge \/ NextLoad
    \/ NextSpc \/ NextRun \/ NextLog \/ NextRace
    \/ NextTrain \/ NextPipeline

Spec == Init /\ [][Next]_vars

====
